---- MODULE Spec2Model ----
(***************************************************************************)
(* Loss-prevention dashboard: POS upload pipeline (duplicate guard, file   *)
(* parsing, field normalisation, flagging engine), the transaction store   *)
(* and the review status update with its audit log.                        *)
(*                                                                         *)
(* Text values (cells of an uploaded file) are sequences of one-character  *)
(* strings, so that toLowerCase, replace(/[$,]/g,'') and parseFloat are    *)
(* computed character by character.  The empty sequence stands for both    *)
(* the empty string and undefined: both are falsy in JavaScript.           *)
(* Money is counted in hundredths; inputs carry at most two decimals.      *)
(***************************************************************************)
EXTENDS Integers, Sequences, FiniteSets, TLC

VARIABLES
    reqs,                \* request slot -> handler state (position, locals, response)
    transactions,        \* the transactions table, in insertion order (id = position)
    auditLogs,           \* the audit_logs table, in insertion order
    users,               \* ids of the rows of the users table
    notes,               \* the notes table, in insertion order
    videoClips,          \* the video_clips table, in insertion order
    uploadedFileHashes,  \* in-memory set of content hashes (duplicate guard)
    disk,                \* files present in the uploads directory
    flagCase,            \* flagging-engine harness: the case the input row was built from
    flagIn,              \* flagging-engine harness: the row handed to flagTransaction
    flagOut,             \* flagging-engine harness: the returned decision
    parseIn,             \* parser harness: the sheet handed to parseModiSoftData
    parseOut,            \* parser harness: the rows it resolved to
    queryIn,             \* query harness: the filters of GET /api/transactions
    queryOut,            \* query harness: the response
    aiIn,                \* analyzer harness: the transaction and what the external call does
    aiOut,               \* analyzer harness: the result returned
    bulk                 \* analyzer harness: a run of analyzeBulkTransactions

vars ==
    <<reqs, transactions, auditLogs, users, notes, videoClips, uploadedFileHashes, disk,
      flagCase, flagIn, flagOut, parseIn, parseOut, queryIn, queryOut, aiIn, aiOut, bulk>>

storeVars ==
    <<reqs, transactions, auditLogs, users, notes, videoClips, uploadedFileHashes, disk>>
flagVars == <<flagCase, flagIn, flagOut>>
sideVars == <<notes, videoClips>>
parseVars == <<parseIn, parseOut>>
queryVars == <<queryIn, queryOut>>
aiVars == <<aiIn, aiOut, bulk>>

-----------------------------------------------------------------------------
(* Bounds *)

MaxReqs == 3

-----------------------------------------------------------------------------
(* JavaScript values *)

Undefined == <<>>

\* numbers in hundredths; NaN is the result of a failed parse
Num(v) == [nan |-> FALSE, val |-> v]

NaN == [nan |-> TRUE, val |-> 0]

Truthy(v) == v # <<>>

\* a || b
Or(a, b) == IF Truthy(a) THEN a ELSE b

\* row[key] for a plain object: undefined when the key is absent
Get(row, key) == IF key \in DOMAIN row THEN row[key] ELSE Undefined

\* array[i] (1-based here): undefined past the end
At(arr, i) == IF i \in DOMAIN arr THEN arr[i] ELSE Undefined

UpperLetters ==
    <<"A","B","C","D","E","F","G","H","I","J","K","L","M",
      "N","O","P","Q","R","S","T","U","V","W","X","Y","Z">>

LowerLetters ==
    <<"a","b","c","d","e","f","g","h","i","j","k","l","m",
      "n","o","p","q","r","s","t","u","v","w","x","y","z">>

LowerChar(c) ==
    IF \E i \in DOMAIN UpperLetters : UpperLetters[i] = c
    THEN LowerLetters[CHOOSE i \in DOMAIN UpperLetters : UpperLetters[i] = c]
    ELSE c

UpperChar(c) ==
    IF \E i \in DOMAIN LowerLetters : LowerLetters[i] = c
    THEN UpperLetters[CHOOSE i \in DOMAIN LowerLetters : LowerLetters[i] = c]
    ELSE c

\* a comparison that forgets to fold the case
KeepCase(s) == s

\* String.prototype.toLowerCase
toLowerCase(s) == [i \in DOMAIN s |-> LowerChar(s[i])]

toUpperCase(s) == [i \in DOMAIN s |-> UpperChar(s[i])]

\* strips the currency sign but leaves the thousands separators
StripDollarOnly(s) == SelectSeq(s, LAMBDA c : c # "$")

IsCurrencyMark(c) == c \in {"$", ","}

KeepChar(c) == ~IsCurrencyMark(c)

\* s.replace(/[$,]/g, '')
StripCurrency(s) == SelectSeq(s, KeepChar)

\* a test that never finds the substring
NeverIncludes(s, sub) == FALSE

\* String.prototype.includes(sub)
StrIncludes(s, sub) ==
    \E i \in 1..(Len(s) - Len(sub) + 1) : SubSeq(s, i, i + Len(sub) - 1) = sub

\* Array.prototype.includes(x)
ArrIncludes(arr, x) == \E i \in DOMAIN arr : arr[i] = x

DigitChars == <<"0","1","2","3","4","5","6","7","8","9">>

IsDigit(c) == \E i \in DOMAIN DigitChars : DigitChars[i] = c

DigitVal(c) == (CHOOSE i \in DOMAIN DigitChars : DigitChars[i] = c) - 1

\* length of the longest prefix of s made of digits
RECURSIVE DigitRun(_)
DigitRun(s) ==
    IF s = <<>> \/ ~IsDigit(Head(s)) THEN 0 ELSE 1 + DigitRun(Tail(s))

RECURSIVE DigitsValue(_)
DigitsValue(s) ==
    IF s = <<>> THEN 0 ELSE DigitsValue(SubSeq(s, 1, Len(s) - 1)) * 10 + DigitVal(s[Len(s)])

\* parseFloat on an unsigned or signed decimal literal: the longest prefix
\* [+-]digits[.digits] is converted, anything after it is ignored, and a
\* string with no such prefix gives NaN.  The result is in hundredths.
ParseUnsigned(s) ==
    LET n == DigitRun(s)
        intPart == SubSeq(s, 1, n)
        rest == SubSeq(s, n + 1, Len(s))
        hasDot == rest # <<>> /\ Head(rest) = "."
        m == IF hasDot THEN DigitRun(Tail(rest)) ELSE 0
        frac == IF hasDot THEN SubSeq(Tail(rest), 1, m) ELSE <<>>
        frac2 == SubSeq(frac \o <<"0", "0">>, 1, 2)
    IN  IF n = 0 /\ m = 0 THEN NaN
        ELSE Num(DigitsValue(intPart) * 100 + DigitsValue(frac2))

parseFloat(s) ==
    IF s # <<>> /\ Head(s) = "-"
    THEN LET v == ParseUnsigned(Tail(s)) IN IF v.nan THEN NaN ELSE Num(0 - v.val)
    ELSE IF s # <<>> /\ Head(s) = "+" THEN ParseUnsigned(Tail(s))
    ELSE ParseUnsigned(s)

\* a comparison that is true of NaN
GtOrNaN(x, n) == x.nan \/ x.val > n * 100

\* a threshold compared with >= instead of >
GtOrEqual(x, n) == ~x.nan /\ x.val >= n * 100

\* x > n for a parsed amount x (hundredths) and a whole number n;
\* every comparison with NaN is false
Gt(x, n) == ~x.nan /\ x.val > n * 100

-----------------------------------------------------------------------------
(* Flagging engine *)

Refund == <<"r","e","f","u","n","d">>
Void == <<"v","o","i","d">>
NoSale == <<"n","o"," ","s","a","l","e">>
Cancellation == <<"c","a","n","c","e","l","l","a","t","i","o","n">>
ManualDiscount == <<"m","a","n","u","a","l"," ","d","i","s","c","o","u","n","t">>
Sale == <<"s","a","l","e">>

\* the list without its fourth entry
suspiciousTypesShort == <<Refund, Void, NoSale, ManualDiscount>>

suspiciousTypes == <<Refund, Void, NoSale, Cancellation, ManualDiscount>>

RefundThreshold == 50
VoidThreshold == 100
HighValueThreshold == 200

NoReason == "none"

Flagged(reason) == [isFlagged |-> TRUE, reason |-> reason]

NotFlagged == [isFlagged |-> FALSE, reason |-> NoReason]

\* the rules of the first revision: no rule for no sale, none for high values
flagTransactionEarlier(transactionData) ==
    LET tranType == Or(Get(transactionData, "Tran Type"), Get(transactionData, "transactionType"))
        gross == Or(Get(transactionData, "Gross"), Get(transactionData, "amount"))
        grossAmount == parseFloat(Or(StripCurrency(gross), <<"0">>))
    IN  IF Truthy(tranType) /\ ArrIncludes(suspiciousTypes, toLowerCase(tranType))
        THEN IF toLowerCase(tranType) = Refund /\ Gt(grossAmount, RefundThreshold)
             THEN Flagged("High value refund")
             ELSE IF toLowerCase(tranType) = Void /\ Gt(grossAmount, VoidThreshold)
             THEN Flagged("High value void")
             ELSE Flagged("Suspicious transaction type")
        ELSE NotFlagged

\* parseFloat(gross?.toString().replace(/[$,]/g, '') || '0')
GrossAmount(transactionData) ==
    LET gross == Or(Get(transactionData, "Gross"), Get(transactionData, "amount"))
    IN  parseFloat(Or(StripCurrency(gross), <<"0">>))

flagTransaction(transactionData) ==
    LET tranType == Or(Get(transactionData, "Tran Type"), Get(transactionData, "transactionType"))
        grossAmount == GrossAmount(transactionData)
    IN  IF Truthy(tranType) /\ ArrIncludes(suspiciousTypes, toLowerCase(tranType))
        THEN IF toLowerCase(tranType) = Refund /\ Gt(grossAmount, RefundThreshold)
             THEN Flagged("High value refund")
             ELSE IF toLowerCase(tranType) = Void /\ Gt(grossAmount, VoidThreshold)
             THEN Flagged("High value void")
             ELSE IF toLowerCase(tranType) = NoSale
             THEN Flagged("No sale transaction")
             ELSE Flagged("Suspicious transaction type")
        ELSE IF Gt(grossAmount, HighValueThreshold)
             THEN Flagged("High value transaction")
             ELSE NotFlagged

-----------------------------------------------------------------------------
(* Flagging-engine harness: rows built from a transaction type in some      *)
(* letter case and an amount written in some currency notation.             *)

RECURSIVE NatChars(_)
NatChars(n) ==
    IF n < 10 THEN <<DigitChars[n + 1]>>
    ELSE NatChars(n \div 10) \o <<DigitChars[(n % 10) + 1]>>

\* digits with a comma before every group of three
RECURSIVE Grouped(_)
Grouped(s) ==
    IF Len(s) <= 3 THEN s
    ELSE Grouped(SubSeq(s, 1, Len(s) - 3)) \o <<",">> \o SubSeq(s, Len(s) - 2, Len(s))

Fixed2(cents) ==
    NatChars(cents \div 100) \o <<".">> \o
    <<DigitChars[((cents % 100) \div 10) + 1], DigitChars[(cents % 10) + 1]>>

AmountStyles == {"plain", "fixed", "dollar", "grouped"}

\* how a POS export writes an amount of `cents` hundredths
FormatAmount(cents, style) ==
    CASE style = "plain" ->
            IF cents % 100 = 0 THEN NatChars(cents \div 100) ELSE Fixed2(cents)
      [] style = "fixed" -> Fixed2(cents)
      [] style = "dollar" -> <<"$">> \o Fixed2(cents)
      [] style = "grouped" ->
            <<"$">> \o Grouped(NatChars(cents \div 100)) \o <<".">> \o
            <<DigitChars[((cents % 100) \div 10) + 1], DigitChars[(cents % 10) + 1]>>

Casings == {"lower", "upper", "title"}

ApplyCasing(word, casing) ==
    CASE casing = "lower" -> word
      [] casing = "upper" -> toUpperCase(word)
      [] casing = "title" ->
            [i \in DOMAIN word |->
                IF i = 1 \/ word[i - 1] = " " THEN UpperChar(word[i]) ELSE word[i]]

Purchase == <<"p","u","r","c","h","a","s","e">>

TypeWords == {Refund, Void, NoSale, Cancellation, ManualDiscount, Sale, Purchase}

\* amounts around the three thresholds, in hundredths
CaseCents ==
    {0, 1, 1000, 4999, 5000, 5001, 7500, 10000, 10001, 15000,
     20000, 20001, 25000, 123456}

Garbage == <<"a","b","c">>

\* a numeric amount in a notation, a missing amount, or an unparsable one
AmountCases ==
    [kind : {"number"}, cents : CaseCents, style : AmountStyles]
    \cup {[kind |-> "missing", cents |-> 0, style |-> "plain"],
          [kind |-> "garbage", cents |-> 0, style |-> "plain"]}

AmountText(a) ==
    CASE a.kind = "number" -> FormatAmount(a.cents, a.style)
      [] a.kind = "missing" -> Undefined
      [] a.kind = "garbage" -> Garbage

Dialects == {"modisoft", "canonical"}

FlagCases ==
    [word : TypeWords \cup {Undefined}, casing : Casings, amount : AmountCases, dialect : Dialects]

\* the row a case denotes: spreadsheet rows carry Tran Type / Gross / Net,
\* normalized records carry transactionType / amount
CaseRow(c) ==
    LET ty == ApplyCasing(c.word, c.casing)
        amt == AmountText(c.amount)
    IN  IF c.dialect = "modisoft"
        THEN [k \in {"Tran Type", "Gross", "Net"} |-> IF k = "Tran Type" THEN ty ELSE amt]
        ELSE [k \in {"transactionType", "amount"} |-> IF k = "transactionType" THEN ty ELSE amt]

NoCase == [word |-> Undefined, casing |-> "lower",
           amount |-> [kind |-> "missing", cents |-> 0, style |-> "plain"],
           dialect |-> "canonical"]

NoRow == [k \in {} |-> Undefined]

NotCalled == [isFlagged |-> FALSE, reason |-> "not called"]

FlagInit ==
    /\ flagCase \in FlagCases
    /\ flagIn = CaseRow(flagCase)
    /\ flagOut = NotCalled

CallFlagTransaction ==
    /\ flagOut = NotCalled
    /\ flagOut' = flagTransaction(flagIn)
    /\ UNCHANGED <<flagCase, flagIn>>

-----------------------------------------------------------------------------
(* Uploaded files.  bytes is the content of the file: for delimited text   *)
(* the header cells and the record lines, for a spreadsheet export the     *)
(* rows of its first sheet (header empty).  ok is false for content that   *)
(* cannot be decoded in its format.                                        *)

IsSpace(c) == c = " "

RECURSIVE TrimLeft(_)
TrimLeft(s) == IF s # <<>> /\ IsSpace(Head(s)) THEN TrimLeft(Tail(s)) ELSE s

RECURSIVE TrimRight(_)
TrimRight(s) ==
    IF s # <<>> /\ IsSpace(s[Len(s)]) THEN TrimRight(SubSeq(s, 1, Len(s) - 1)) ELSE s

\* csv-parse option trim: true
Trim(s) == TrimRight(TrimLeft(s))

TrimCells(line) == [i \in DOMAIN line |-> Trim(line[i])]

\* csv-parse option skip_empty_lines: true
IsEmptyLine(line) == line = <<>>

NonEmptyLine(line) == ~IsEmptyLine(line)

ColumnIndex(header, key) == CHOOSE i \in DOMAIN header : header[i] = key

HeaderKeys(header) == {header[i] : i \in DOMAIN header}

\* csv-parse with columns: true rejects a record whose length differs from the header's
CsvRejects(bytes) ==
    \/ ~bytes.ok
    \/ \E i \in DOMAIN bytes.lines :
          NonEmptyLine(bytes.lines[i]) /\ Len(bytes.lines[i]) # Len(bytes.header)

\* one object per record line, keyed by the header cells
parseCSVData(bytes) ==
    LET records == SelectSeq(bytes.lines, NonEmptyLine)
    IN  [i \in DOMAIN records |->
            [k \in HeaderKeys(bytes.header) |->
                Trim(records[i][ColumnIndex(bytes.header, k)])]]

TranDateLabel == <<"T","r","a","n"," ","D","a","t","e">>

SaleTransactionsLabel ==
    <<"S","a","l","e"," ","T","r","a","n","s","a","c","t","i","o","n","s">>

ModiKeys ==
    <<"Tran Date", "Tran Type", "Tender", "Gross", "Discount", "Tax", "Net",
      "Tip Amount", "Online Charges", "Cashier Name", "Tran ID">>

ModiKeySet == {ModiKeys[i] : i \in DOMAIN ModiKeys}

\* the object pushed for a data row: positional cells under the eleven fixed keys
ModiObject(row) ==
    [k \in ModiKeySet |-> At(row, CHOOSE i \in DOMAIN ModiKeys : ModiKeys[i] = k)]

\* the 'data' callback over the remaining lines, headerFound carried along
RECURSIVE ModiScan(_, _)
ModiScan(lines, headerFound) ==
    IF lines = <<>> THEN <<>>
    ELSE LET row == TrimCells(Head(lines))
             rest == Tail(lines)
         IN  IF IsEmptyLine(row) THEN ModiScan(rest, headerFound)
             ELSE IF ~headerFound /\ ArrIncludes(row, TranDateLabel)
             THEN ModiScan(rest, TRUE)
             ELSE IF /\ headerFound
                     /\ Truthy(At(row, 1))
                     /\ At(row, 1) # TranDateLabel
                     /\ ~StrIncludes(At(row, 1), SaleTransactionsLabel)
             THEN IF ~Truthy(At(row, 1)) \/ ~Truthy(At(row, 2))
                  THEN ModiScan(rest, headerFound)
                  ELSE <<ModiObject(row)>> \o ModiScan(rest, headerFound)
             ELSE ModiScan(rest, headerFound)

\* a scan that takes every row for a data row
ModiScanAll(bytes) == ModiScan(bytes.lines, TRUE)

\* bytes.lines are the first sheet's rows as sheet_to_csv writes them and
\* csv-parse (columns: false) reads them back
parseModiSoftData(bytes) == ModiScan(bytes.lines, FALSE)

ModiRejects(bytes) == ~bytes.ok

IsSpreadsheet(file) == file.ext \in {".xls", ".xlsx"}

parsePOSData(file) ==
    IF IsSpreadsheet(file) THEN parseModiSoftData(file.bytes) ELSE parseCSVData(file.bytes)

ParseRejects(file) ==
    IF IsSpreadsheet(file) THEN ModiRejects(file.bytes) ELSE CsvRejects(file.bytes)

-----------------------------------------------------------------------------
(* The transactions table *)

Null == "NULL"

InvalidDate == <<"I","n","v","a","l","i","d"," ","D","a","t","e">>

\* new Date(value): a missing value gives the invalid-date sentinel
NewDate(value) == IF Truthy(value) THEN value ELSE InvalidDate

\* text accepted by the decimal(10,2) column: [+-]digits[.digits], nothing else
DecimalOk(s) ==
    LET body == IF s # <<>> /\ Head(s) \in {"-", "+"} THEN Tail(s) ELSE s
        n == DigitRun(body)
        rest == SubSeq(body, n + 1, Len(body))
        m == IF rest # <<>> /\ Head(rest) = "." THEN DigitRun(Tail(rest)) ELSE 0
    IN  /\ n + m > 0
        /\ \/ rest = <<>>
           \/ Head(rest) = "." /\ Len(rest) = m + 1

\* the insert is refused: unique transaction_id, NOT NULL timestamp date,
\* decimal amount
\* a table without the unique constraint on transaction_id
RejectsBadValuesOnly(table, transaction) ==
    \/ transaction.date = InvalidDate
    \/ ~DecimalOk(transaction.amount)

InsertRejected(table, transaction) ==
    \/ \E i \in DOMAIN table : table[i].transactionId = transaction.transactionId
    \/ transaction.date = InvalidDate
    \/ ~DecimalOk(transaction.amount)

\* the row written by db.insert(transactions).values(transaction): only the
\* table's columns are taken from the object, the others get their defaults
InsertedRow(table, transaction) ==
    [id |-> Len(table) + 1,
     transactionId |-> transaction.transactionId,
     date |-> transaction.date,
     transactionType |-> transaction.transactionType,
     registerId |-> transaction.registerId,
     employeeName |-> transaction.employeeName,
     amount |-> parseFloat(transaction.amount),
     status |-> IF "status" \in DOMAIN transaction THEN transaction.status ELSE "pending",
     isFlagged |-> IF "isFlagged" \in DOMAIN transaction THEN transaction.isFlagged ELSE FALSE,
     flaggedReason |->
        IF "flaggedReason" \in DOMAIN transaction THEN transaction.flaggedReason ELSE Null]

createTransaction(table, transaction) == Append(table, InsertedRow(table, transaction))

TxExists(table, id) == \E i \in DOMAIN table : table[i].id = id

-----------------------------------------------------------------------------
(* Inputs: the files a manager uploads and the status requests sent.       *)

D1 == <<"7","/","8">>
T1 == <<"T","1">>
T2 == <<"T","2">>
Cash == <<"C","a","s","h">>
Ann == <<"A","n","n">>
E == <<>>

NoFile == [present |-> FALSE, ext |-> "", bytes |-> [ok |-> TRUE, header |-> <<>>, lines |-> <<>>]]

CsvFile(ext, header, lines) ==
    [present |-> TRUE, ext |-> ext, bytes |-> [ok |-> TRUE, header |-> header, lines |-> lines]]

Sheet(lines) ==
    [present |-> TRUE, ext |-> ".xls", bytes |-> [ok |-> TRUE, header |-> <<>>, lines |-> lines]]

\* the two-row example: type / amount columns, amounts with a currency sign
ExampleLines ==
    << <<T1, D1, Refund, FormatAmount(7500, "dollar")>>,
       <<T2, D1, Sale, FormatAmount(1000, "dollar")>> >>

PlainLines ==
    << <<T1, D1, ApplyCasing(Refund, "title"), FormatAmount(7500, "fixed")>>,
       <<T2, D1, Sale, FormatAmount(1000, "fixed")>> >>

ExampleCsv == CsvFile(".csv", <<"id", "date", "type", "amount">>, ExampleLines)

CanonCsv == CsvFile(".csv", <<"id", "date", "transactionType", "amount">>, PlainLines)

CanonCopy == CsvFile(".txt", <<"id", "date", "transactionType", "amount">>, PlainLines)

BrokenCsv ==
    [present |-> TRUE, ext |-> ".csv",
     bytes |-> [ok |-> FALSE, header |-> <<"id">>, lines |-> <<>>]]

Title == SaleTransactionsLabel \o <<" ">> \o D1

MarkerRow ==
    <<TranDateLabel, <<"T","r","a","n"," ","T","y","p","e">>, <<"T","e","n","d","e","r">>,
      <<"G","r","o","s","s">>>>

ModiRow(date, type, gross, tranId) ==
    <<date, type, Cash, gross, E, E, gross, E, E, Ann, tranId>>

ModiXls ==
    Sheet(<< <<Title>>,
             MarkerRow,
             ModiRow(D1, ApplyCasing(Refund, "title"), FormatAmount(7500, "dollar"), T1),
             <<E, E, E, E>>,
             ModiRow(D1, ApplyCasing(Sale, "title"), FormatAmount(1000, "dollar"), T2),
             <<Title>>,
             ModiRow(D1, ApplyCasing(Sale, "title"), FormatAmount(125000, "grouped"), E) >>)

\* a readable export in which the header marker row never appears
NoMarkerXls ==
    Sheet(<< <<Title>>,
             ModiRow(D1, ApplyCasing(Refund, "title"), FormatAmount(7500, "dollar"), T1) >>)

T3 == <<"T","3">>

\* a delimited-text export that lists the refund T3 twice, then the refund T1
TwiceCsv ==
    CsvFile(".csv", <<"id", "date", "transactionType", "amount">>,
            << <<T3, D1, Refund, FormatAmount(7500, "fixed")>>,
               <<T3, D1, Refund, FormatAmount(7500, "fixed")>>,
               <<T1, D1, Refund, FormatAmount(7500, "fixed")>> >>)

\* the files at hand, by name; "none" is a request that carries no file
FileNames ==
    {"none", "example.csv", "canon.csv", "canon-copy.txt", "broken.csv", "modisoft.xls",
     "nomarker.xls"}

FileOf(name) ==
    CASE name = "none" -> NoFile
      [] name = "example.csv" -> ExampleCsv
      [] name = "canon.csv" -> CanonCsv
      [] name = "canon-copy.txt" -> CanonCopy
      [] name = "broken.csv" -> BrokenCsv
      [] name = "modisoft.xls" -> ModiXls
      [] name = "nomarker.xls" -> NoMarkerXls
      [] name = "twice.csv" -> TwiceCsv

\* the files of the ingestion harness
IngestFiles == {"canon.csv", "canon-copy.txt", "broken.csv", "modisoft.xls", "twice.csv"}

KnownFiles == FileNames \cup IngestFiles

Files == [name \in KnownFiles |-> FileOf(name)]

MissingStatus == "undefined"

\* PATCH requests: the :id path parameter and the status of the body
StatusRequests ==
    [idParam : {<<"1">>}, status : {"pending", "approved", "bogus", MissingStatus}]

-----------------------------------------------------------------------------
(* Request handlers.  A handler runs from one await to the next without    *)
(* interruption; each action below is one such stretch.  Slots are taken   *)
(* in the order the handlers start.  A request holds the name of its file; *)
(* what the file contains, parses to and is flagged as is tabulated once.  *)

Slots == 1..MaxReqs

\* a digest that depends on the name of the file
HashOfName(name) == name

\* generateFileHash: a digest of the bytes alone; files of equal content get
\* the same digest, files of different content different ones
generateFileHash(name) ==
    CHOOSE other \in KnownFiles : Files[other].bytes = Files[name].bytes

FileHash == [name \in KnownFiles |-> generateFileHash(name)]

\* what parsePOSData resolves to for each file that parses
Parsed ==
    [name \in KnownFiles |->
        IF ParseRejects(Files[name]) THEN <<>> ELSE parsePOSData(Files[name])]

\* flagTransaction(row) for each parsed row
Decision ==
    [name \in KnownFiles |-> [i \in DOMAIN Parsed[name] |-> flagTransaction(Parsed[name][i])]]

Idle ==
    [kind |-> "idle", pc |-> "idle", code |-> 0,
     file |-> "none", parsed |-> FALSE, idx |-> 0, createdTransactions |-> <<>>,
     totalProcessed |-> 0, flaggedCount |-> 0, isDuplicate |-> FALSE,
     id |-> NaN, status |-> MissingStatus, returned |-> <<>>]

\* the handler's posData, once parsePOSData has resolved
posData(r) == IF r.parsed THEN Parsed[r.file] ELSE <<>>

\* the user noAuth attaches to every request
user == [id |-> "manager", firstName |-> "Store", lastName |-> "Manager"]

performedByName == "Store Manager"

CanStart(s) ==
    /\ reqs[s].kind = "idle"
    /\ \A t \in Slots : t < s => reqs[t].kind # "idle"

UploadPath(s) == [slot |-> s, name |-> "upload"]

CsvPath(s) == [slot |-> s, name |-> "csv"]

Respond(r, code) == [r EXCEPT !.pc = "done", !.code = code]

\* a guard that looks the hash up but never records it
AddNothing(hashes, fileHash) == hashes

\* a set that forgets what it held
ForgetHashes(hashes, fileHash) == {}

\* uploadedFileHashes.add(fileHash)
AddHash(hashes, fileHash) == hashes \cup {fileHash}

\* POST /api/upload/pos up to the await of parsePOSData: multer has stored the
\* file, the duplicate guard looks the hash up and records it
UploadPOS(s, f) ==
    /\ CanStart(s)
    /\ LET r == [reqs[s] EXCEPT !.kind = "upload", !.file = f]
           fileHash == FileHash[f]
       IN  IF ~Files[f].present
           THEN /\ reqs' = [reqs EXCEPT ![s] = Respond(r, 400)]
                /\ UNCHANGED <<uploadedFileHashes, disk>>
           ELSE IF fileHash \in uploadedFileHashes
           THEN \* stored by multer, then fs.unlinkSync(filePath)
                /\ reqs' = [reqs EXCEPT ![s] = [Respond(r, 409) EXCEPT !.isDuplicate = TRUE]]
                /\ disk' = (disk \cup {UploadPath(s)}) \ {UploadPath(s)}
                /\ UNCHANGED uploadedFileHashes
           ELSE /\ uploadedFileHashes' = AddHash(uploadedFileHashes, fileHash)
                /\ disk' = disk \cup {UploadPath(s)}
                /\ reqs' = [reqs EXCEPT ![s] = [r EXCEPT !.pc = "parse"]]
    /\ UNCHANGED <<transactions, auditLogs, users, flagVars,
                 sideVars, parseVars, queryVars, aiVars>>

SynthIds == {<<"T","9","0">>, <<"T","9","1">>}

DefaultRegister == <<"R","E","G","0","0","1">>

UnknownEmployee == <<"U","n","k","n","o","w","n">>

\* the object built from a row, before the flag fields are added
TransactionData(row, synth) ==
    IF Truthy(Get(row, "Tran Date")) /\ Truthy(Get(row, "Tran Type"))
    THEN [transactionId |-> Or(Get(row, "Tran ID"), synth),
          date |-> NewDate(Get(row, "Tran Date")),
          amount |-> IF Truthy(Get(row, "Gross")) THEN StripCurrency(Get(row, "Gross"))
                     ELSE <<"0">>,
          transactionType |-> Or(Get(row, "Tran Type"), Sale),
          registerId |-> DefaultRegister,
          employeeName |-> Or(Get(row, "Cashier Name"), UnknownEmployee),
          status |-> "pending"]
    ELSE [transactionId |->
              Or(Or(Or(Get(row, "transaction_id"), Get(row, "TransactionID")),
                    Get(row, "id")), synth),
          date |-> NewDate(Or(Or(Get(row, "date"), Get(row, "Date")), Get(row, "timestamp"))),
          amount |-> Or(Or(Or(Get(row, "amount"), Get(row, "Amount")), Get(row, "total")),
                        <<"0">>),
          transactionType |->
              Or(Or(Or(Get(row, "transaction_type"), Get(row, "Type")), Get(row, "type")),
                 Sale),
          registerId |->
              Or(Or(Or(Get(row, "register_id"), Get(row, "RegisterID")), Get(row, "register")),
                 DefaultRegister),
          employeeName |->
              Or(Or(Or(Get(row, "employee_name"), Get(row, "Employee")), Get(row, "cashier")),
                 UnknownEmployee),
          status |-> "pending"]

\* transactionData.isFlagged = true; transactionData.flagReason = reason
WithFlag(transactionData, reason) ==
    [isFlagged |-> TRUE, flagReason |-> reason] @@ transactionData

\* a loop that stops at its first await
PastLastRow(decisions, i) == Len(decisions) + 1

\* the row loop runs on without an await over rows that are not flagged:
\* the index of the first flagged row at or after i, or one past the end
RECURSIVE NextFlagged(_, _)
NextFlagged(decisions, i) ==
    IF i > Len(decisions) \/ decisions[i].isFlagged THEN i
    ELSE NextFlagged(decisions, i + 1)

\* the handler from row i on, up to its next await (the insert of the next
\* flagged row) or, past the last row, to the response: the uploaded file is
\* removed and the counts are reported
ContinueLoop(r, i) ==
    LET next == NextFlagged(Decision[r.file], i)
    IN  IF next <= Len(posData(r))
        THEN [r EXCEPT !.idx = next]
        ELSE [Respond(r, 200) EXCEPT !.idx = next,
                                     !.flaggedCount = Len(r.createdTransactions)]

\* a handler that leaves its file behind
DiskKept(r, s, files) == files

DiskAfter(r, s, files) ==
    IF r.pc = "done" THEN files \ {UploadPath(s)} ELSE files

ServerErrorCode == 500

\* fs.unlinkSync(filePath) throws when the file is no longer there: the outer
\* catch finds nothing to remove and answers 500
Unlinked(r, s, files) ==
    IF r.pc = "done" /\ UploadPath(s) \notin files
    THEN [r EXCEPT !.code = ServerErrorCode, !.flaggedCount = 0]
    ELSE r

\* parsePOSData settles: the rows, or the parse error answered with 400
ParseFile(s) ==
    /\ reqs[s].kind = "upload" /\ reqs[s].pc = "parse"
    /\ LET r == reqs[s] IN
       IF UploadPath(s) \notin disk
       THEN \* XLSX.readFile throws, and so does the unlinkSync of the inner catch
            /\ reqs' = [reqs EXCEPT ![s] = Respond(r, ServerErrorCode)]
            /\ UNCHANGED disk
       ELSE IF ParseRejects(Files[r.file])
       THEN /\ disk' = disk \ {UploadPath(s)}
            /\ reqs' = [reqs EXCEPT ![s] = Respond(r, 400)]
       ELSE LET parsed == [r EXCEPT !.pc = "rows", !.parsed = TRUE,
                                    !.totalProcessed = Len(Parsed[r.file])]
                after == ContinueLoop(parsed, 1)
            IN  /\ disk' = DiskAfter(after, s,
                                     IF IsSpreadsheet(Files[r.file])
                                     THEN disk \cup {CsvPath(s)}
                                     ELSE disk)
                /\ reqs' = [reqs EXCEPT ![s] = after]
    /\ UNCHANGED <<transactions, auditLogs, uploadedFileHashes, users, flagVars,
                 sideVars, parseVars, queryVars, aiVars>>

\* the insert of the flagged row at idx settles (a refused insert is caught
\* and the row skipped), and the loop runs on
ProcessRow(s) ==
    /\ reqs[s].kind = "upload" /\ reqs[s].pc = "rows"
    /\ \E synth \in SynthIds :
         LET r == reqs[s]
             row == posData(r)[r.idx]
             decision == Decision[r.file][r.idx]
             transactionData == WithFlag(TransactionData(row, synth), decision.reason)
             stored == ~InsertRejected(transactions, transactionData)
             after ==
                Unlinked(
                    ContinueLoop(
                        IF stored
                        THEN [r EXCEPT !.createdTransactions =
                                          Append(r.createdTransactions,
                                                 InsertedRow(transactions, transactionData))]
                        ELSE r,
                        r.idx + 1),
                    s, disk)
         IN  /\ decision.isFlagged
             /\ transactions' = IF stored
                                THEN createTransaction(transactions, transactionData)
                                ELSE transactions
             /\ reqs' = [reqs EXCEPT ![s] = after]
             /\ disk' = DiskAfter(after, s, disk)
    /\ UNCHANGED <<auditLogs, uploadedFileHashes, users, flagVars,
                 sideVars, parseVars, queryVars, aiVars>>

\* parseInt(req.params.id)
parseInt(s) ==
    LET body == IF s # <<>> /\ Head(s) \in {"-", "+"} THEN Tail(s) ELSE s
        n == DigitRun(body)
        v == DigitsValue(SubSeq(body, 1, n))
    IN  IF n = 0 THEN NaN
        ELSE IF s # <<>> /\ Head(s) = "-" THEN Num(0 - v) ELSE Num(v)

\* an UPDATE without its WHERE clause
SetStatusEverywhere(table, id, status) ==
    [i \in DOMAIN table |->
        IF status # MissingStatus THEN [table[i] EXCEPT !.status = status] ELSE table[i]]

\* update(transactions).set({status, updatedAt}).where(id = ...): a status
\* that is undefined is left out of the SET list
SetStatus(table, id, status) ==
    [i \in DOMAIN table |->
        IF table[i].id = id /\ status # MissingStatus
        THEN [table[i] EXCEPT !.status = status]
        ELSE table[i]]

HasId(row, id) == row.id = id

\* PATCH /api/transactions/:id/status up to the first statement of
\* updateTransactionStatus, the UPDATE ... RETURNING
UpdateTransactionStatus(s, idParam, status) ==
    /\ CanStart(s)
    /\ LET id == parseInt(idParam)
           r == [reqs[s] EXCEPT !.kind = "status", !.id = id, !.status = status]
       IN  IF id.nan
           THEN /\ reqs' = [reqs EXCEPT ![s] = Respond(r, 400)]
                /\ UNCHANGED transactions
           ELSE /\ transactions' = SetStatus(transactions, id.val, status)
                /\ reqs' = [reqs EXCEPT ![s] =
                              [r EXCEPT !.pc = "audit",
                                        !.returned =
                                            SelectSeq(SetStatus(transactions, id.val, status),
                                                      LAMBDA row : HasId(row, id.val))]]
    /\ UNCHANGED <<auditLogs, uploadedFileHashes, disk, users, flagVars,
                 sideVars, parseVars, queryVars, aiVars>>

\* an entry filed under the neighbouring transaction
AuditEntryElsewhere(id, status) ==
    [transactionId |-> id + 1, action |-> status, previousStatus |-> Null,
     newStatus |-> status, performedBy |-> user.id,
     performedByName |-> performedByName]

AuditEntry(id, status) ==
    [transactionId |-> id, action |-> status, previousStatus |-> Null,
     newStatus |-> status, performedBy |-> user.id,
     performedByName |-> performedByName]

\* the insert is refused: action is NOT NULL, transaction_id references
\* transactions.id, performed_by references users.id
AuditRejected(table, userIds, entry) ==
    \/ entry.action = MissingStatus
    \/ ~TxExists(table, entry.transactionId)
    \/ entry.performedBy \notin userIds

\* the second statement, createAuditLog, and the response
CreateAuditLog(s) ==
    /\ reqs[s].kind = "status" /\ reqs[s].pc = "audit"
    /\ LET r == reqs[s]
           entry == AuditEntry(r.id.val, r.status)
       IN  IF AuditRejected(transactions, users, entry)
           THEN /\ reqs' = [reqs EXCEPT ![s] = Respond(r, 500)]
                /\ UNCHANGED auditLogs
           ELSE /\ auditLogs' = Append(auditLogs, entry)
                /\ reqs' = [reqs EXCEPT ![s] = Respond(r, 200)]
    /\ UNCHANGED <<transactions, uploadedFileHashes, disk, users, flagVars,
                 sideVars, parseVars, queryVars, aiVars>>

\* POST /api/transactions/:id/notes requests: the :id parameter and the content
NoteRequests == {[idParam |-> <<"1">>, content |-> <<"o","k">>]}

Note(id, content) ==
    [transactionId |-> id, content |-> content, authorId |-> user.id,
     authorName |-> performedByName]

\* the insert is refused: transaction_id is an integer referencing
\* transactions.id, content is NOT NULL, author_id references users.id
NoteRejected(table, userIds, note) ==
    \/ note.transactionId.nan
    \/ ~TxExists(table, note.transactionId.val)
    \/ ~Truthy(note.content)
    \/ note.authorId \notin userIds

\* POST /api/transactions/:id/notes: createNote and the response
CreateNote(s, idParam, content) ==
    /\ CanStart(s)
    /\ LET r == [reqs[s] EXCEPT !.kind = "note", !.id = parseInt(idParam)]
           note == Note(r.id, content)
       IN  IF NoteRejected(transactions, users, note)
           THEN /\ reqs' = [reqs EXCEPT ![s] = Respond(r, 500)]
                /\ UNCHANGED notes
           ELSE /\ notes' = Append(notes, note)
                /\ reqs' = [reqs EXCEPT ![s] = Respond(r, 200)]
    /\ UNCHANGED <<transactions, auditLogs, users, videoClips, uploadedFileHashes, disk,
                   flagVars, parseVars, queryVars, aiVars>>

\* POST /api/upload/video requests: whether a file is attached, and the
\* transactionId field of the body
VideoRequests == {[present |-> TRUE, transactionId |-> <<"1">>]}

VideoPath(s) == [slot |-> s, name |-> "video"]

VideoClip(s, transactionId) ==
    [transactionId |-> IF Truthy(transactionId) THEN parseInt(transactionId) ELSE Num(0),
     linked |-> Truthy(transactionId),
     filePath |-> VideoPath(s), uploadedBy |-> user.id]

\* the insert is refused: transaction_id, when given, is an integer
\* referencing transactions.id; uploaded_by references users.id
VideoRejected(table, userIds, clip) ==
    \/ clip.linked /\ (clip.transactionId.nan \/ ~TxExists(table, clip.transactionId.val))
    \/ clip.uploadedBy \notin userIds

\* POST /api/upload/video: multer has stored the file; createVideoClip and
\* the response
UploadVideo(s, present, transactionId) ==
    /\ CanStart(s)
    /\ LET r == [reqs[s] EXCEPT !.kind = "video"]
           clip == VideoClip(s, transactionId)
       IN  IF ~present
           THEN /\ reqs' = [reqs EXCEPT ![s] = Respond(r, 400)]
                /\ UNCHANGED <<videoClips, disk>>
           ELSE /\ disk' = disk \cup {VideoPath(s)}
                /\ IF VideoRejected(transactions, users, clip)
                   THEN /\ reqs' = [reqs EXCEPT ![s] = Respond(r, 500)]
                        /\ UNCHANGED videoClips
                   ELSE /\ videoClips' = Append(videoClips, clip)
                        /\ reqs' = [reqs EXCEPT ![s] = Respond(r, 200)]
    /\ UNCHANGED <<transactions, auditLogs, users, notes, uploadedFileHashes,
                   flagVars, parseVars, queryVars, aiVars>>

-----------------------------------------------------------------------------
(* Specification of the server *)

NoSheet == <<>>

NotParsed == [called |-> FALSE, rows |-> <<>>]

ParseIdle ==
    /\ parseIn = NoSheet
    /\ parseOut = NotParsed

NoQuery == [asked |-> FALSE]

NotAsked == [asked |-> FALSE]

QueryIdle ==
    /\ queryIn = NoQuery
    /\ queryOut = NotAsked

NoAnalysis == [asked |-> FALSE]

NotAnalyzed == [returned |-> FALSE]

NoBulk == [pc |-> "idle"]

AiIdle ==
    /\ aiIn = NoAnalysis
    /\ aiOut = NotAnalyzed
    /\ bulk = NoBulk

\* No handler inserts into users; the table holds what the database was
\* provisioned with, which may or may not include the fixed manager.
UserTables == {{}, {user.id}}

StoreInit ==
    /\ reqs = [s \in Slots |-> Idle]
    /\ transactions = <<>>
    /\ auditLogs = <<>>
    /\ users \in UserTables
    /\ notes = <<>>
    /\ videoClips = <<>>
    /\ uploadedFileHashes = {}
    /\ disk = {}

FlagIdle ==
    /\ flagCase = NoCase
    /\ flagIn = NoRow
    /\ flagOut = NotCalled

Init == StoreInit /\ FlagIdle /\ ParseIdle /\ QueryIdle /\ AiIdle

Next ==
    \/ \E s \in Slots, f \in FileNames : UploadPOS(s, f)
    \/ \E s \in Slots : ParseFile(s)
    \/ \E s \in Slots : ProcessRow(s)
    \/ \E s \in Slots, q \in StatusRequests :
          UpdateTransactionStatus(s, q.idParam, q.status)
    \/ \E s \in Slots : CreateAuditLog(s)
    \/ \E s \in Slots, q \in NoteRequests : CreateNote(s, q.idParam, q.content)
    \/ \E s \in Slots, q \in VideoRequests : UploadVideo(s, q.present, q.transactionId)

Spec == Init /\ [][Next]_vars

-----------------------------------------------------------------------------
(* Specification of the flagging-engine harness *)

FlagNext == CallFlagTransaction /\ UNCHANGED <<storeVars, parseVars, queryVars, aiVars>>

FlagStart == StoreInit /\ FlagInit /\ ParseIdle /\ QueryIdle /\ AiIdle

FlagSpec == FlagStart /\ [][FlagNext]_vars

-----------------------------------------------------------------------------
(* Ingestion claims *)

\* the normalized record of a row: the type and amount the field normalizer
\* resolved, under the names the flagging engine reads
Normalized(row) ==
    LET transactionData == TransactionData(row, CHOOSE synth \in SynthIds : TRUE)
    IN  [k \in {"transactionType", "amount"} |->
            IF k = "amount" THEN transactionData.amount ELSE transactionData.transactionType]

IsCsvUpload(r) == r.kind = "upload" /\ r.parsed /\ ~IsSpreadsheet(Files[r.file])

\* C1: for a delimited-text upload the decision applied to each row is the
\* decision table on the row's normalized type and cleaned amount, whichever
\* accepted column carried them
C1_CsvDecisionFromNormalized ==
    \A s \in Slots :
        IsCsvUpload(reqs[s]) =>
            \A i \in DOMAIN posData(reqs[s]) :
                Decision[reqs[s].file][i] = flagTransaction(Normalized(posData(reqs[s])[i]))

\* C2: a completed upload has persisted one transaction per parsed row,
\* pending when flagged and approved when not
C2_EveryRowPersisted ==
    \A s \in Slots :
        (reqs[s].kind = "upload" /\ reqs[s].code = 200) =>
            /\ Len(reqs[s].createdTransactions) = reqs[s].totalProcessed
            /\ \A i \in DOMAIN reqs[s].createdTransactions :
                  reqs[s].createdTransactions[i].status =
                      IF reqs[s].createdTransactions[i].isFlagged THEN "pending" ELSE "approved"

\* C3: every persisted transaction with isFlagged = true has flaggedReason
\* set, and was created with status pending
C3_FlaggedHasReason ==
    /\ \A i \in DOMAIN transactions :
          transactions[i].isFlagged = TRUE => transactions[i].flaggedReason # Null
    /\ \A s \in Slots : \A i \in DOMAIN reqs[s].createdTransactions :
          reqs[s].createdTransactions[i].isFlagged = TRUE =>
              /\ reqs[s].createdTransactions[i].flaggedReason # Null
              /\ reqs[s].createdTransactions[i].status = "pending"

-----------------------------------------------------------------------------
(* Duplicate guard and status update claims *)

SameContent(f, g) == Files[f].bytes = Files[g].bytes

PassedGuard(r) == r.kind = "upload" /\ Files[r.file].present /\ ~r.isDuplicate

\* an upload whose handler started after one of the same content passed the
\* guard is answered 409 and has parsed and created nothing
C9_LaterUploadRejected ==
    \A s1, s2 \in Slots :
        (/\ s1 < s2
         /\ PassedGuard(reqs[s1])
         /\ reqs[s2].kind = "upload"
         /\ SameContent(reqs[s1].file, reqs[s2].file))
        => /\ reqs[s2].pc = "done" /\ reqs[s2].code = 409 /\ reqs[s2].isDuplicate
           /\ ~reqs[s2].parsed /\ reqs[s2].totalProcessed = 0
           /\ reqs[s2].createdTransactions = <<>>

\* the step that answers 409 leaves the transactions table as it was
C9_RejectionKeepsStore ==
    \A s \in Slots :
        (reqs[s].kind = "idle" /\ reqs'[s].code = 409) => transactions' = transactions

\* C9: once content has passed the duplicate guard, every later upload of the
\* same content is rejected with 409, none of its rows is parsed or processed
\* and the persisted transactions are unchanged by it
C9_DuplicateRejected == []C9_LaterUploadRejected /\ [][C9_RejectionKeepsStore]_vars

C9_Witness ==
    /\ reqs[1].kind = "upload" /\ reqs[1].file = "canon.csv" /\ reqs[1].code = 200
    /\ Len(reqs[1].createdTransactions) = 1
    /\ reqs[2].kind = "upload" /\ reqs[2].file = "canon-copy.txt" /\ reqs[2].code = 409
    /\ Len(transactions) = 1

StatusOf(table, id) == table[CHOOSE i \in DOMAIN table : table[i].id = id].status

\* the UPDATE of a status request on an existing transaction
C10_UpdateStep(s) ==
    (/\ reqs[s].kind = "idle" /\ reqs'[s].kind = "status" /\ reqs'[s].pc = "audit"
     /\ reqs'[s].status # MissingStatus
     /\ TxExists(transactions, reqs'[s].id.val))
    => /\ StatusOf(transactions', reqs'[s].id.val) = reqs'[s].status
       /\ Len(reqs'[s].returned) = 1
       /\ reqs'[s].returned[1].id = reqs'[s].id.val
       /\ reqs'[s].returned[1].status = reqs'[s].status
       /\ auditLogs' = auditLogs

\* the audit insert of a status request on an existing transaction
C10_AuditStep(s) ==
    (/\ reqs[s].kind = "status" /\ reqs[s].pc = "audit" /\ reqs'[s].pc = "done"
     /\ reqs[s].status # MissingStatus
     /\ TxExists(transactions, reqs[s].id.val))
    => /\ reqs'[s].code = 200
       /\ Len(auditLogs') = Len(auditLogs) + 1
       /\ SubSeq(auditLogs', 1, Len(auditLogs)) = auditLogs
       /\ auditLogs'[Len(auditLogs')].transactionId = reqs[s].id.val
       /\ auditLogs'[Len(auditLogs')].newStatus = reqs[s].status
       /\ auditLogs'[Len(auditLogs')].performedBy = user.id
       /\ transactions' = transactions

\* C10: a status update on an existing transaction X with target status S
\* sets X's persisted status to S and adds exactly one audit entry, which
\* references X and records S as the new status and the requesting user as
\* the actor, whatever X's status was before
C10_StatusUpdateAudited ==
    [][\A s \in Slots : C10_UpdateStep(s) /\ C10_AuditStep(s)]_vars

-----------------------------------------------------------------------------
(* Flagging-engine claims, over the harness *)

\* what the case says, independently of how the row spells it
CaseIs(word) == flagOut # NotCalled /\ flagCase.word = word

CaseAmountAbove(n) == flagCase.amount.kind = "number" /\ flagCase.amount.cents > n * 100

CaseAmountAtMost(n) ==
    \/ flagCase.amount.kind = "number" /\ flagCase.amount.cents <= n * 100
    \/ flagCase.amount.kind \in {"missing", "garbage"}

\* C4: a refund, in any letter case, with an amount above 50 is flagged
\* "High value refund"
C4_HighValueRefund ==
    (CaseIs(Refund) /\ CaseAmountAbove(50)) => flagOut = Flagged("High value refund")

C4_Witness ==
    /\ CaseIs(Refund) /\ flagCase.casing = "upper"
    /\ flagCase.amount.kind = "number" /\ flagCase.amount.cents = 123456
    /\ flagCase.amount.style = "grouped"
    /\ flagOut = Flagged("High value refund")

\* C5: a void, in any letter case, with an amount above 100 is flagged
\* "High value void"
C5_HighValueVoid ==
    (CaseIs(Void) /\ CaseAmountAbove(100)) => flagOut = Flagged("High value void")

C5_Witness ==
    /\ CaseIs(Void) /\ flagCase.casing = "title"
    /\ flagCase.amount.kind = "number" /\ flagCase.amount.cents = 10001
    /\ flagOut = Flagged("High value void")

\* C6: a no sale, in any letter case, is flagged "No sale transaction" at
\* every amount, a missing or unparsable one included
C6_NoSaleAlways ==
    CaseIs(NoSale) => flagOut = Flagged("No sale transaction")

C6_Witness ==
    /\ CaseIs(NoSale) /\ flagCase.casing = "upper"
    /\ flagCase.amount.kind = "garbage"
    /\ flagOut = Flagged("No sale transaction")

\* C7: a suspicious type that hits no more specific rule (refund up to 50,
\* void up to 100, cancellation and manual discount at any amount) is flagged
\* "Suspicious transaction type"
C7_SuspiciousFallback ==
    (\/ CaseIs(Refund) /\ CaseAmountAtMost(50)
     \/ CaseIs(Void) /\ CaseAmountAtMost(100)
     \/ CaseIs(Cancellation)
     \/ CaseIs(ManualDiscount))
    => flagOut = Flagged("Suspicious transaction type")

C7_Witness ==
    /\ CaseIs(Cancellation)
    /\ flagCase.amount.kind = "number" /\ flagCase.amount.cents = 25000
    /\ flagOut = Flagged("Suspicious transaction type")

OutsideSuspiciousSet == flagOut # NotCalled /\ flagCase.word \in {Sale, Purchase, Undefined}

\* C8: a type outside the suspicious set is flagged exactly when the amount
\* is above 200, with reason "High value transaction"; otherwise it is not
\* flagged and carries no reason
C8_HighValueOnly ==
    OutsideSuspiciousSet =>
        /\ CaseAmountAbove(200) => flagOut = Flagged("High value transaction")
        /\ ~CaseAmountAbove(200) => flagOut = NotFlagged

C8_Witness ==
    /\ CaseIs(Sale)
    /\ flagCase.amount.kind = "number" /\ flagCase.amount.cents = 20000
    /\ flagOut = NotFlagged

-----------------------------------------------------------------------------
(* Review state machine claims *)

NotFoundCode == 404

\* a status request whose UPDATE matched no row: its id is not a transaction's
UnknownIdRequest(r) ==
    r.kind = "status" /\ ~r.id.nan /\ r.pc \in {"audit", "done"} /\ r.returned = <<>>

C11_AnsweredNotFound ==
    \A s \in Slots :
        (UnknownIdRequest(reqs[s]) /\ reqs[s].pc = "done") => reqs[s].code = NotFoundCode

C11_NothingWritten ==
    \A s \in Slots :
        (UnknownIdRequest(reqs'[s]) /\ reqs'[s] # reqs[s])
        => transactions' = transactions /\ auditLogs' = auditLogs

\* C11: a status update whose id is no transaction's is answered NotFound and
\* changes neither a transaction nor the audit log
C11_UnknownIdNotFound == []C11_AnsweredNotFound /\ [][C11_NothingWritten]_vars

\* the status updates that have changed the status of transaction id
AppliedUpdates(id) ==
    {s \in Slots : /\ reqs[s].kind = "status" /\ reqs[s].pc \in {"audit", "done"}
                   /\ reqs[s].id = Num(id) /\ reqs[s].status # MissingStatus
                   /\ reqs[s].returned # <<>>}

AuditEntriesOf(id) == {k \in DOMAIN auditLogs : auditLogs[k].transactionId = id}

\* C12: in every reachable state each transaction has exactly as many audit
\* entries as status updates that changed it: no status change without its
\* audit entry, no audit entry without its status change
C12_UpdateAtomic ==
    \A i \in DOMAIN transactions :
        Cardinality(AppliedUpdates(transactions[i].id)) =
            Cardinality(AuditEntriesOf(transactions[i].id))

ReviewStatuses == {"pending", "approved", "investigate", "escalate"}

\* C13: the status of every persisted transaction is one of pending,
\* approved, investigate, escalate
C13_StatusInDomain ==
    \A i \in DOMAIN transactions : transactions[i].status \in ReviewStatuses

\* C14: a transaction whose status is approved, investigate or escalate is
\* never made pending again
C14_NoBackToPending ==
    [][\A i \in DOMAIN transactions :
          transactions[i].status \in ReviewStatuses \ {"pending"}
          => transactions'[i].status # "pending"]_vars

\* the status updates on transaction id that were answered with success
CompletedUpdates(id) ==
    {s \in Slots : /\ reqs[s].kind = "status" /\ reqs[s].id = Num(id)
                   /\ reqs[s].pc = "done" /\ reqs[s].code = 200}

ReferencedIds ==
    {auditLogs[k].transactionId : k \in DOMAIN auditLogs}
    \cup {transactions[i].id : i \in DOMAIN transactions}

SameButStatus(old, new) ==
    /\ new.id = old.id /\ new.transactionId = old.transactionId
    /\ new.isFlagged = old.isFlagged /\ new.flaggedReason = old.flaggedReason
    /\ new.transactionType = old.transactionType /\ new.amount = old.amount
    /\ new.date = old.date

\* a status request on transaction id performs its UPDATE in this step
UpdateStepOn(id) ==
    \E s \in Slots :
        reqs[s].kind = "idle" /\ reqs'[s].kind = "status" /\ reqs'[s].id = Num(id)

\* C16: no step changes a stored transaction except in its status, and the
\* status of a transaction changes only in the UPDATE step of a status
\* request on that very transaction; note creation and video upload change
\* no transaction
C16_OnlyStatusChanges ==
    [][/\ \A i \in DOMAIN transactions :
             /\ i \in DOMAIN transactions'
             /\ SameButStatus(transactions[i], transactions'[i])
             /\ transactions'[i].status # transactions[i].status
                => UpdateStepOn(transactions[i].id)
       /\ (\E s \in Slots : reqs'[s].kind \in {"note", "video"} /\ reqs[s].kind = "idle")
          => transactions' = transactions]_vars

C16_Witness ==
    /\ Len(transactions) = 2
    /\ transactions[1].status = "approved" /\ transactions[2].status = "pending"
    /\ transactions[1].isFlagged = TRUE /\ transactions[2].isFlagged = TRUE
    /\ reqs[3].kind \in {"note", "video"} /\ reqs[3].code = 200

-----------------------------------------------------------------------------
(* Specification of the spreadsheet-parser harness: sheets built from a    *)
(* preamble, a header marker row (or none) and body rows of every kind.    *)

MaxPreamble == 2
MaxBody == 3

Padded(cell) == <<" ">> \o cell \o <<" ">>

PreambleKinds == {"title", "data"}

BodyKinds == {"refund", "padded", "notype", "nodate", "blank", "label", "title", "empty"}

MarkerKinds == {"first", "second", "absent"}

SheetRow(kind) ==
    CASE kind = "refund" ->
            ModiRow(D1, ApplyCasing(Refund, "title"), FormatAmount(7500, "dollar"), T1)
      [] kind = "data" ->
            ModiRow(D1, ApplyCasing(Void, "title"), FormatAmount(15000, "dollar"), T2)
      [] kind = "padded" ->
            ModiRow(Padded(D1), Padded(NoSale), FormatAmount(0, "fixed"), Padded(T1))
      [] kind = "notype" -> ModiRow(D1, E, FormatAmount(1000, "dollar"), T2)
      [] kind = "nodate" -> ModiRow(E, Sale, FormatAmount(1000, "dollar"), T2)
      [] kind = "blank" -> <<E, E, E, E>>
      [] kind = "label" -> MarkerRow
      [] kind = "title" -> <<Title, Cash>>
      [] kind = "empty" -> <<>>

MarkerRows(kind) ==
    CASE kind = "first" -> <<MarkerRow>>
      [] kind = "second" -> << <<E, Padded(TranDateLabel), Cash>> >>
      [] kind = "absent" -> <<>>

KindSeqs(kinds, n) == UNION {[1..k -> kinds] : k \in 0..n}

SheetCases ==
    [preamble : KindSeqs(PreambleKinds, MaxPreamble),
     marker : MarkerKinds,
     body : KindSeqs(BodyKinds, MaxBody)]

SheetLines(c) ==
    [i \in DOMAIN c.preamble |-> SheetRow(c.preamble[i])]
    \o MarkerRows(c.marker)
    \o [i \in DOMAIN c.body |-> SheetRow(c.body[i])]

ParseInit ==
    /\ \E c \in SheetCases : parseIn = SheetLines(c)
    /\ parseOut = NotParsed

CallParseModiSoftData ==
    /\ ~parseOut.called
    /\ parseOut' = [called |-> TRUE, rows |-> parseModiSoftData(Sheet(parseIn).bytes)]
    /\ UNCHANGED parseIn

ParseNext == CallParseModiSoftData /\ UNCHANGED <<storeVars, flagVars, queryVars, aiVars>>

ParseStart == StoreInit /\ users = {} /\ FlagIdle /\ ParseInit /\ QueryIdle /\ AiIdle

ParseSpec == ParseStart /\ [][ParseNext]_vars

-----------------------------------------------------------------------------
(* Spreadsheet-parser claims, over the harness *)

TrimmedSheet == [i \in DOMAIN parseIn |-> TrimCells(parseIn[i])]

HasLabel(row) == \E k \in DOMAIN row : row[k] = TranDateLabel

MarkerPresent == \E i \in DOMAIN TrimmedSheet : HasLabel(TrimmedSheet[i])

\* the header marker row: the first row holding the label
MarkerIndex ==
    CHOOSE i \in DOMAIN TrimmedSheet :
        /\ HasLabel(TrimmedSheet[i])
        /\ \A j \in 1..(i - 1) : ~HasLabel(TrimmedSheet[j])

AfterMarker == SubSeq(TrimmedSheet, MarkerIndex + 1, Len(TrimmedSheet))

FieldEmpty(row, k) == k \notin DOMAIN row \/ row[k] = <<>>

IsSectionTitle(cell) ==
    \E a, b \in 1..Len(cell) : SubSeq(cell, a, b) = SaleTransactionsLabel

LabelOrTitleFirst(row) ==
    ~FieldEmpty(row, 1) /\ (row[1] = TranDateLabel \/ IsSectionTitle(row[1]))

\* the skip rule read as: both of the first two fields are empty
SkippedBothEmpty(row) ==
    \/ FieldEmpty(row, 1) /\ FieldEmpty(row, 2)
    \/ LabelOrTitleFirst(row)

\* the skip rule read as: either of the first two fields is empty
SkippedEitherEmpty(row) ==
    \/ FieldEmpty(row, 1) \/ FieldEmpty(row, 2)
    \/ LabelOrTitleFirst(row)

Emitted(Skipped(_)) ==
    LET kept == SelectSeq(AfterMarker, LAMBDA row : ~Skipped(row))
    IN  [i \in DOMAIN kept |-> ModiObject(kept[i])]

\* C17 as stated: with the marker present, the emitted sequence is the rows
\* after the marker in file order, minus the rows whose first two fields are
\* both empty, whose first field is the header label or that are section titles
C17_EmittedAsStated ==
    (parseOut.called /\ MarkerPresent) => parseOut.rows = Emitted(SkippedBothEmpty)

\* C17: with the marker present, the emitted sequence is the rows after the
\* marker in file order, each once, minus the rows in which either of the
\* first two fields is empty, whose first field is the header label or that
\* are section titles; no preamble row and not the marker row is emitted
C17_EmittedAfterMarker ==
    (parseOut.called /\ MarkerPresent) => parseOut.rows = Emitted(SkippedEitherEmpty)

C17_Witness ==
    /\ parseOut.called
    /\ parseIn = SheetLines([preamble |-> <<"title", "data">>, marker |-> "first",
                             body |-> <<"padded", "notype", "refund">>])
    /\ Len(parseOut.rows) = 2
    /\ parseOut.rows[1]["Tran Type"] = NoSale
    /\ parseOut.rows[2]["Tran Type"] = ApplyCasing(Refund, "title")

-----------------------------------------------------------------------------
(* Upload claims *)

\* a readable spreadsheet in which no row holds the header label
NoMarkerFile(f) ==
    /\ Files[f].present /\ IsSpreadsheet(Files[f]) /\ Files[f].bytes.ok
    /\ \A i \in DOMAIN Files[f].bytes.lines : ~HasLabel(TrimCells(Files[f].bytes.lines[i]))

\* C18: an upload of a readable spreadsheet without the header marker that
\* passed the duplicate guard parses to no rows without an error and is
\* answered with success, zero processed and zero flagged
C18_NoMarkerEmptySuccess ==
    \A s \in Slots :
        (PassedGuard(reqs[s]) /\ NoMarkerFile(reqs[s].file) /\ reqs[s].pc # "parse")
        => /\ reqs[s].parsed /\ posData(reqs[s]) = <<>>
           /\ reqs[s].pc = "done" /\ reqs[s].code = 200
           /\ reqs[s].totalProcessed = 0 /\ reqs[s].flaggedCount = 0
           /\ reqs[s].createdTransactions = <<>>

C18_Witness ==
    \E s \in Slots :
        /\ reqs[s].kind = "upload" /\ reqs[s].file = "nomarker.xls"
        /\ reqs[s].code = 200 /\ reqs[s].totalProcessed = 0
        /\ Len(Files["nomarker.xls"].bytes.lines) = 2

\* the transaction id row i of the upload's file is stored under; <<>> when
\* the row carries none and one is made up
RowTransactionId(r, i) == TransactionData(posData(r)[i], <<>>).transactionId

StoredAs(tx, r, i) ==
    IF RowTransactionId(r, i) = <<>> THEN tx.transactionId \in SynthIds
    ELSE tx.transactionId = RowTransactionId(r, i)

\* the flagged rows the loop has dealt with: those before the row in flight
HandledRows(r) == {i \in DOMAIN posData(r) : i < r.idx /\ Decision[r.file][i].isFlagged}

RowOfCreated(r, k) ==
    CHOOSE i \in DOMAIN posData(r) :
        Decision[r.file][i].isFlagged /\ StoredAs(r.createdTransactions[k], r, i)

\* C19: a parsed upload is never aborted by a row: every flagged row before
\* the one in flight is stored, by this upload or (its insert refused) under
\* the same id by an earlier one; what the upload created is in file order
\* and still persisted; the finished upload answers 200 with the number of
\* parsed rows and the number of transactions it created
C19_RowFailureSkipped ==
    \A s \in Slots :
        LET r == reqs[s] IN
        (r.kind = "upload" /\ r.parsed)
        => /\ r.pc \in {"rows", "done"} /\ r.code \in {0, 200}
           /\ \A i \in HandledRows(r) :
                 \E j \in DOMAIN transactions : StoredAs(transactions[j], r, i)
           /\ \A k \in DOMAIN r.createdTransactions :
                 /\ \E j \in DOMAIN transactions :
                       /\ transactions[j].id = r.createdTransactions[k].id
                       /\ transactions[j].transactionId =
                              r.createdTransactions[k].transactionId
                 /\ \A l \in DOMAIN r.createdTransactions :
                       k < l => RowOfCreated(r, k) < RowOfCreated(r, l)
           /\ r.pc = "done"
              => /\ r.code = 200 /\ r.idx = Len(posData(r)) + 1
                 /\ r.totalProcessed = Len(posData(r))
                 /\ r.flaggedCount = Len(r.createdTransactions)

\* the spreadsheet's first flagged row is refused (its id was stored by the
\* delimited-text upload), its last row is stored all the same
C19_Witness ==
    /\ reqs[1].kind = "upload" /\ reqs[1].file = "canon.csv" /\ reqs[1].code = 200
    /\ reqs[2].kind = "upload" /\ reqs[2].file = "modisoft.xls" /\ reqs[2].code = 200
    /\ reqs[2].totalProcessed = 3 /\ reqs[2].flaggedCount = 1
    /\ reqs[2].createdTransactions[1].transactionId \in SynthIds
    /\ Len(transactions) = 2 /\ transactions[1].transactionId = T1

-----------------------------------------------------------------------------
(* storage.getTransactions and the listing route GET /api/transactions.     *)
(* The harness starts from a table that uploads and status updates have     *)
(* filled before (the in-memory hash set and the request slots are those    *)
(* of a freshly started server) and sends one listing request.              *)

MaxRows == 11

\* limit = 10, offset = 0 in the destructuring of filters
DefaultLimit == 10

DefaultOffset == 0

\* ilike(column, `%${search}%`), for a search text without % or _
Ilike(text, search) == StrIncludes(toLowerCase(text), toLowerCase(search))

\* the where clause: one condition for every filter that is truthy
Conditions(row, filters) ==
    /\ Truthy(filters.search) =>
          \/ Ilike(row.employeeName, filters.search)
          \/ Ilike(row.transactionId, filters.search)
          \/ Ilike(row.registerId, filters.search)
    /\ Truthy(filters.transactionType) => row.transactionType = filters.transactionType
    /\ filters.status # MissingStatus => row.status = filters.status

\* the instant a stored "month/day" date stands for, in days
SlashAt(date) == CHOOSE i \in DOMAIN date : date[i] = "/"

Timestamp(date) ==
    DigitsValue(SubSeq(date, 1, SlashAt(date) - 1)) * 31
        + DigitsValue(SubSeq(date, SlashAt(date) + 1, Len(date)))

Smaller(a, b) == IF a < b THEN a ELSE b

\* the choices of k first rows of .orderBy(desc(transactions.date)): rows of
\* equal date come in an order the database does not fix
Newest(table, rows, k) ==
    {P \in SUBSET rows :
        /\ Cardinality(P) = Smaller(k, Cardinality(rows))
        /\ \A i \in P : \A j \in rows \ P :
              Timestamp(table[i].date) >= Timestamp(table[j].date)}

\* .limit(limit).offset(offset) over the ordered rows
Pages(table, rows, limit, offset) ==
    UNION {Newest(table, rows \ skipped, limit) : skipped \in Newest(table, rows, offset)}

\* the rows of a page, newest first (equal dates listed by id)
RECURSIVE DateDesc(_, _)
DateDesc(table, page) ==
    IF page = {} THEN <<>>
    ELSE LET first == CHOOSE i \in page : \A j \in page :
                          \/ Timestamp(table[i].date) > Timestamp(table[j].date)
                          \/ /\ Timestamp(table[i].date) = Timestamp(table[j].date)
                             /\ i <= j
         IN  <<table[first]>> \o DateDesc(table, page \ {first})

\* the results storage.getTransactions(filters) can give
getTransactions(table, filters) ==
    LET limit == IF "limit" \in DOMAIN filters THEN filters.limit ELSE DefaultLimit
        offset == IF "offset" \in DOMAIN filters THEN filters.offset ELSE DefaultOffset
        matching == {i \in DOMAIN table : Conditions(table[i], filters)}
    IN  {[transactions |-> DateDesc(table, page), total |-> Cardinality(matching)] :
            page \in Pages(table, matching, limit, offset)}

\* req.query of a listing request
QueryRequests ==
    [search : {Undefined, <<"t","1">>},
     transactionType : {Undefined, Refund},
     status : {MissingStatus, "pending", "approved"}]

\* GET /api/transactions: the three filters are passed on, limit and offset
\* are not
ListTransactions ==
    /\ ~queryOut.asked
    /\ \E result \in getTransactions(transactions,
                                     [search |-> queryIn.search,
                                      transactionType |-> queryIn.transactionType,
                                      status |-> queryIn.status]) :
          queryOut' = [asked |-> TRUE, code |-> 200, body |-> result]
    /\ UNCHANGED queryIn

\* the tables the listing is asked about: n flagged rows stored by uploads,
\* with one date for all or one date each, refunds only or refunds and
\* voids, the first row approved or none
TableCases ==
    [n : 0..MaxRows, dates : {"same", "distinct"}, types : {"refunds", "mixed"},
     approved : {"none", "first"}]

QueryRow(c, i) ==
    [transaction_id |-> <<"T">> \o NatChars(i),
     date |-> IF c.dates = "same" THEN D1 ELSE <<"7","/">> \o NatChars(i),
     amount |-> <<"9">>,
     transaction_type |-> IF c.types = "mixed" /\ i % 2 = 0 THEN Void ELSE Refund,
     cashier |-> Ann]

RECURSIVE StoredTable(_, _)
StoredTable(c, n) ==
    IF n = 0 THEN <<>>
    ELSE LET transactionData == TransactionData(QueryRow(c, n), Undefined)
         IN  createTransaction(StoredTable(c, n - 1),
                               WithFlag(transactionData,
                                        flagTransaction(transactionData).reason))

ReviewedTable(c) ==
    IF c.approved = "first" THEN SetStatus(StoredTable(c, c.n), 1, "approved")
    ELSE StoredTable(c, c.n)

QueryInit ==
    /\ queryIn \in QueryRequests
    /\ queryOut = NotAsked

QueryStart ==
    /\ reqs = [s \in Slots |-> Idle]
    /\ \E c \in TableCases : transactions = ReviewedTable(c)
    /\ auditLogs = <<>>
    /\ users = {}
    /\ notes = <<>>
    /\ videoClips = <<>>
    /\ uploadedFileHashes = {}
    /\ disk = {}
    /\ FlagIdle
    /\ ParseIdle
    /\ QueryInit
    /\ AiIdle

QueryNext == ListTransactions /\ UNCHANGED <<storeVars, flagVars, parseVars, aiVars>>

QuerySpec == QueryStart /\ [][QueryNext]_vars

\* the stored rows a listing request asks for
MatchingRows ==
    {transactions[i] : i \in {j \in DOMAIN transactions : Conditions(transactions[j], queryIn)}}

ListedRows == {queryOut.body.transactions[k] : k \in DOMAIN queryOut.body.transactions}

\* C20: the response of GET /api/transactions holds every stored transaction
\* that matches the supplied filters, the whole set in one response.
C20_FullMatchingSet == queryOut.asked => ListedRows = MatchingRows

-----------------------------------------------------------------------------
(* The GET routes one segment below /api/transactions: the transaction by   *)
(* id and the export.  The harness starts from the tables of the listing    *)
(* harness and sends one request.                                           *)

ExportLimit == 10000

BadRequestCode == 400

ExportSegment == <<"e","x","p","o","r","t">>

IdPattern == <<":","i","d">>

\* app.get('/api/transactions/:id') and app.get('/api/transactions/export'),
\* in the order of their registration
SegmentRoutes ==
    <<[pattern |-> IdPattern, handler |-> "getTransaction"],
      [pattern |-> ExportSegment, handler |-> "export"]>>

\* a path parameter takes any segment that is not empty, a literal only itself
RouteMatches(pattern, segment) ==
    IF Head(pattern) = ":" THEN segment # <<>> ELSE pattern = segment

\* the router hands the request to the first registered route that matches
Dispatch(segment) ==
    LET first == CHOOSE i \in DOMAIN SegmentRoutes :
                    /\ RouteMatches(SegmentRoutes[i].pattern, segment)
                    /\ \A j \in 1..(i - 1) : ~RouteMatches(SegmentRoutes[j].pattern, segment)
    IN  SegmentRoutes[first].handler

getTransaction(table, id) ==
    IF TxExists(table, id) THEN table[CHOOSE i \in DOMAIN table : table[i].id = id]
    ELSE Null

getVideoClip(clips, id) ==
    IF \E i \in DOMAIN clips : clips[i].transactionId = Num(id)
    THEN clips[CHOOSE i \in DOMAIN clips : clips[i].transactionId = Num(id)]
    ELSE Null

getTransactionNotes(table, id) == SelectSeq(table, LAMBDA n : n.transactionId = Num(id))

\* the handler of GET /api/transactions/:id
TransactionById(idParam) ==
    LET id == parseInt(idParam)
    IN  IF id.nan THEN [code |-> BadRequestCode, message |-> "Invalid transaction ID"]
        ELSE IF ~TxExists(transactions, id.val)
        THEN [code |-> NotFoundCode, message |-> "Transaction not found"]
        ELSE [code |-> 200,
              body |-> [transaction |-> getTransaction(transactions, id.val),
                        videoClip |-> getVideoClip(videoClips, id.val),
                        notes |-> getTransactionNotes(notes, id.val)]]

csvHeader ==
    <<"Transaction ID", "Date", "Register ID", "Employee", "Type", "Amount", "Status",
      "Flagged", "Reason">>

\* "${value}" in the template of a line
Quoted(value) == [quoted |-> value]

CsvLine(t) ==
    <<Quoted(t.transactionId), Quoted(t.date), Quoted(t.registerId), Quoted(t.employeeName),
      Quoted(t.transactionType), Quoted(t.amount), Quoted(t.status), Quoted(t.isFlagged),
      Quoted(IF t.flaggedReason = Null THEN Undefined ELSE t.flaggedReason)>>

\* the answers the handler of GET /api/transactions/export can give
ExportTransactions(query) ==
    {IF query.format = "csv"
     THEN [code |-> 200, contentType |-> "text/csv", header |-> csvHeader,
           lines |-> [k \in DOMAIN result.transactions |-> CsvLine(result.transactions[k])]]
     ELSE [code |-> 200, body |-> result] :
        result \in getTransactions(transactions,
                                   [search |-> query.search,
                                    transactionType |-> query.transactionType,
                                    status |-> query.status,
                                    limit |-> ExportLimit,
                                    offset |-> 0])}

\* req.params and req.query of a request; format is 'csv' when not given
RouteRequests ==
    [segment : {ExportSegment, <<"1">>, <<"9">>},
     search : {Undefined},
     transactionType : {Undefined, Refund},
     status : {MissingStatus, "pending"},
     format : {"csv", "json"}]

\* GET /api/transactions/<segment>
GetBelowTransactions ==
    /\ ~queryOut.asked
    /\ \E answer \in (IF Dispatch(queryIn.segment) = "export"
                      THEN ExportTransactions(queryIn)
                      ELSE {TransactionById(queryIn.segment)}) :
          queryOut' = [asked |-> TRUE, handler |-> Dispatch(queryIn.segment)] @@ answer
    /\ UNCHANGED queryIn

RouteStart ==
    /\ reqs = [s \in Slots |-> Idle]
    /\ \E c \in TableCases : transactions = ReviewedTable(c)
    /\ auditLogs = <<>>
    /\ users = {}
    /\ notes = <<>>
    /\ videoClips = <<>>
    /\ uploadedFileHashes = {}
    /\ disk = {}
    /\ FlagIdle
    /\ ParseIdle
    /\ queryIn \in RouteRequests
    /\ queryOut = NotAsked
    /\ AiIdle

RouteNext == GetBelowTransactions /\ UNCHANGED <<storeVars, flagVars, parseVars, aiVars>>

RouteSpec == RouteStart /\ [][RouteNext]_vars

ExportAsked == queryOut.asked /\ queryIn.segment = ExportSegment /\ queryIn.format = "csv"

\* C21: a GET request to /api/transactions/export is answered by the export
\* handler, with CSV under the nine-column header and one line per
\* transaction matching the filters, and by no other route.
C21_ExportAnswered ==
    ExportAsked =>
        /\ queryOut.handler = "export"
        /\ queryOut.code = 200
        /\ queryOut.contentType = "text/csv"
        /\ queryOut.header = csvHeader
        /\ Len(queryOut.lines) =
              Cardinality({i \in DOMAIN transactions : Conditions(transactions[i], queryIn)})

-----------------------------------------------------------------------------
(* AITransactionAnalyzer (ai-analysis.ts): analyzeTransaction with its      *)
(* external scoring call and the local rule-based fallbackAnalysis.         *)

VoidWeight == 30

RefundWeight == 25

DiscountWeight == 20

HighAmountWeight == 15

UnusualTimeWeight == 10

HighAmount == 100

EarlyHour == 6

LateHour == 22

SuspiciousFrom == 30

MaxScore == 100

RateLimitStatus == 429

Discount == <<"d","i","s","c","o","u","n","t">>

Quota == <<"q","u","o","t","a">>

RateLimit == <<"r","a","t","e"," ","l","i","m","i","t">>

\* new Date(transaction.date).getHours(): the digits after the blank of a
\* "month/day hours:minutes" date, midnight for a date without a time
SpaceAt(date) == CHOOSE i \in DOMAIN date : date[i] = " "

getHours(date) ==
    IF \E i \in DOMAIN date : date[i] = " "
    THEN LET time == SubSeq(date, SpaceAt(date) + 1, Len(date))
         IN  DigitsValue(SubSeq(time, 1, DigitRun(time)))
    ELSE 0

\* one rule of fallbackAnalysis: its flag and its weight when it applies
Rule(applies, flag, weight) ==
    IF applies THEN [flags |-> <<flag>>, score |-> weight] ELSE [flags |-> <<>>, score |-> 0]

fallbackRules(transaction) ==
    LET type == toLowerCase(transaction.transactionType)
        amount == parseFloat(transaction.amount)
        hour == getHours(transaction.date)
    IN  <<Rule(StrIncludes(type, Void), "Transaction void - requires verification", VoidWeight),
          Rule(StrIncludes(type, Refund), "Refund transaction - verify receipt", RefundWeight),
          Rule(StrIncludes(type, Discount), "Manual discount applied", DiscountWeight),
          Rule(Gt(amount, HighAmount), "High amount transaction", HighAmountWeight),
          Rule(hour < EarlyHour \/ hour > LateHour, "Unusual transaction time",
               UnusualTimeWeight)>>

RECURSIVE RuleFlags(_)
RuleFlags(rules) == IF rules = <<>> THEN <<>> ELSE Head(rules).flags \o RuleFlags(Tail(rules))

RECURSIVE RuleScore(_)
RuleScore(rules) == IF rules = <<>> THEN 0 ELSE Head(rules).score + RuleScore(Tail(rules))

fallbackAnalysis(transaction) ==
    LET rules == fallbackRules(transaction)
    IN  [isSuspicious |-> RuleScore(rules) >= SuspiciousFrom,
         suspiciousScore |-> RuleScore(rules),
         flags |-> RuleFlags(rules),
         explanation |-> <<"Basic analysis flagged this transaction due to: ", RuleFlags(rules)>>,
         recommendations |-> <<"Manual review recommended", "Check security footage",
                               "Verify with employee">>]

\* the result returned when the external call was refused for its rate
rateLimitResult ==
    [isSuspicious |-> FALSE,
     suspiciousScore |-> 0,
     flags |-> <<"rate_limit_exceeded">>,
     explanation |-> <<"Google Gemini API rate limit exceeded (10 requests per minute). The analysis will work again in a few minutes.">>,
     recommendations |-> <<"Wait 1-2 minutes and try again",
                           "Free tier allows 10 requests per minute",
                           "Upgrade to paid tier for higher limits">>]

Unclamped(x) == x

\* Math.max(0, Math.min(100, x))
Clamp(x) == IF x < 0 THEN 0 ELSE IF x > MaxScore THEN MaxScore ELSE x

\* analysis.field || fallback, for the parsed response object
Field(analysis, key, fallback) ==
    IF key \in DOMAIN analysis THEN analysis[key] ELSE fallback

externalResult(analysis) ==
    [isSuspicious |-> Field(analysis, "isSuspicious", FALSE),
     suspiciousScore |-> Clamp(Field(analysis, "suspiciousScore", 0)),
     flags |-> Field(analysis, "flags", <<>>),
     explanation |-> <<Field(analysis, "explanation", "No analysis available")>>,
     recommendations |-> Field(analysis, "recommendations", <<>>)]

\* error.status === 429 || error.message includes 'quota' or 'rate limit'
IsRateLimit(error) ==
    \/ error.status = RateLimitStatus
    \/ Truthy(error.message) /\ (StrIncludes(error.message, Quota)
                                 \/ StrIncludes(error.message, RateLimit))

\* external: what the scoring service does for this call ("nokey": no client
\* was built; "json": a response text that parses to the object analysis;
\* "badjson": a response text JSON.parse rejects; "error": the call throws)
analyzeTransaction(transaction, external) ==
    IF external.kind = "nokey" THEN fallbackAnalysis(transaction)
    ELSE IF external.kind = "json" THEN externalResult(external.analysis)
    ELSE IF external.kind = "error" /\ IsRateLimit(external.error) THEN rateLimitResult
    ELSE fallbackAnalysis(transaction)

\* the response objects the schema of the call allows, and "{}"
Analyses ==
    {[k \in {} |-> 0]}
    \cup {[isSuspicious |-> b, suspiciousScore |-> n, flags |-> <<"after hours">>,
           explanation |-> "why", recommendations |-> <<"review">>] :
             b \in BOOLEAN, n \in {0 - 5, 0, 50, 100, 150}}

Errors ==
    {[status |-> 500, message |-> <<"o","o","p","s">>],
     [status |-> RateLimitStatus, message |-> <<"o","o","p","s">>],
     [status |-> 0, message |-> <<"n","o"," ">> \o Quota],
     [status |-> 0, message |-> RateLimit],
     [status |-> 0, message |-> Undefined]}

Externals ==
    {[kind |-> "nokey"], [kind |-> "badjson"]}
    \cup {[kind |-> "json", analysis |-> a] : a \in Analyses}
    \cup {[kind |-> "error", error |-> e] : e \in Errors}

AiTypes ==
    {Sale, Void, toUpperCase(Refund), ManualDiscount,
     Void \o <<" ">> \o Refund \o <<" ">> \o Discount}

AiTransactions ==
    [transactionId : {T1},
     transactionType : AiTypes,
     amount : {<<"9",".","0","0">>, <<"1","0","0",".","0","0">>, <<"1","5","0",".","0","0">>},
     date : {D1, D1 \o <<" ","1","4",":","3","0">>, D1 \o <<" ","2","3",":","0","5">>},
     employeeName : {Ann},
     registerId : {DefaultRegister}]

AnalyzeInit ==
    /\ aiIn \in [asked : {TRUE}, transaction : AiTransactions, external : Externals]
    /\ aiOut = NotAnalyzed
    /\ bulk = NoBulk

CallAnalyzeTransaction ==
    /\ ~aiOut.returned
    /\ aiOut' = [returned |-> TRUE,
                 result |-> analyzeTransaction(aiIn.transaction, aiIn.external)]
    /\ UNCHANGED <<aiIn, bulk>>

AnalyzeNext == CallAnalyzeTransaction /\ UNCHANGED <<storeVars, flagVars, parseVars, queryVars>>

AnalyzeStart ==
    StoreInit /\ users = {} /\ FlagIdle /\ ParseIdle /\ QueryIdle /\ AnalyzeInit

AnalyzeSpec == AnalyzeStart /\ [][AnalyzeNext]_vars

CallRateLimited == aiIn.external.kind = "error" /\ IsRateLimit(aiIn.external.error)

CallFailed ==
    \/ aiIn.external.kind = "badjson"
    \/ aiIn.external.kind = "error" /\ ~IsRateLimit(aiIn.external.error)

LocalPath == aiIn.external.kind = "nokey" \/ CallFailed

\* C22: when the external risk-scoring call fails or is rate-limited,
\* analyzeTransaction still returns, and what it returns is the result the
\* local rule-based analysis gives for the transaction.
C22_DegradesToLocalRules ==
    (CallFailed \/ CallRateLimited) /\ aiOut.returned
        => aiOut.result = fallbackAnalysis(aiIn.transaction)

\* C30: the suspiciousScore returned by analyzeTransaction lies in 0..100 on
\* every path, and on the local fallback path isSuspicious holds exactly
\* when the score is at least 30.
C30_ScoreInRange ==
    aiOut.returned =>
        /\ aiOut.result.suspiciousScore \in 0..100
        /\ LocalPath => (aiOut.result.isSuspicious <=> aiOut.result.suspiciousScore >= 30)

C30_Witness ==
    /\ aiOut.returned
    /\ LocalPath
    /\ aiOut.result.suspiciousScore = 100
    /\ aiOut.result.isSuspicious

-----------------------------------------------------------------------------
(* storage.getStats and GET /api/stats.  The harness starts from a table    *)
(* that uploads, status updates and video uploads have filled, at some      *)
(* time of the day, and asks for the statistics once.                       *)

MaxStatRows == 3

DayPart(date) ==
    IF \E i \in DOMAIN date : date[i] = " " THEN SubSeq(date, 1, SpaceAt(date) - 1) ELSE date

ColonAt(date) == CHOOSE i \in DOMAIN date : date[i] = ":"

getMinutes(date) ==
    IF \E i \in DOMAIN date : date[i] = ":"
    THEN DigitsValue(SubSeq(date, ColonAt(date) + 1, Len(date)))
    ELSE 0

\* the instant a date value stands for: its day and the minutes since midnight
Instant(date) == [day |-> DayPart(date), minutes |-> getHours(date) * 60 + getMinutes(date)]

\* today.setHours(0, 0, 0, 0)
setHoursZero(now) == DayPart(now)

getStats(table, clips, now) ==
    LET today == setHoursZero(now)
    IN  [pendingReview |-> Cardinality({i \in DOMAIN table : table[i].status = "pending"}),
         flaggedToday |->
            Cardinality({i \in DOMAIN table :
                            /\ table[i].isFlagged
                            /\ Instant(table[i].date) = Instant(today)}),
         approved |-> Cardinality({i \in DOMAIN table : table[i].status = "approved"}),
         videoClips |-> Len(clips)]

\* GET /api/stats
GetStatistics ==
    /\ ~queryOut.asked
    /\ queryOut' = [asked |-> TRUE, code |-> 200,
                    body |-> getStats(transactions, videoClips, queryIn.now)]
    /\ UNCHANGED queryIn

Afternoon == <<" ","1","4",":","3","0">>

\* dates of stored rows: today at midnight, today in the afternoon, tomorrow
StatDates == {D1, D1 \o Afternoon, <<"7","/","9">>}

\* the clock of the server when the statistics are asked for
StatClocks == {D1 \o <<" ","9",":","1","5">>}

StatCases ==
    {c \in [dates : KindSeqs(StatDates, MaxStatRows),
            approved : BOOLEAN, staffed : BOOLEAN, clips : 0..1] :
        /\ c.approved => Len(c.dates) > 0
        /\ c.clips > 0 => c.staffed /\ Len(c.dates) > 0}

RECURSIVE StatTable(_, _)
StatTable(dates, n) ==
    IF n = 0 THEN <<>>
    ELSE LET transactionData ==
                 TransactionData([transaction_id |-> <<"T">> \o NatChars(n),
                                  date |-> dates[n], amount |-> <<"9">>,
                                  transaction_type |-> Refund, cashier |-> Ann], Undefined)
         IN  createTransaction(StatTable(dates, n - 1),
                               WithFlag(transactionData,
                                        flagTransaction(transactionData).reason))

StatsStart ==
    /\ reqs = [s \in Slots |-> Idle]
    /\ \E c \in StatCases :
          /\ transactions = IF c.approved THEN SetStatus(StatTable(c.dates, Len(c.dates)),
                                                         1, "approved")
                            ELSE StatTable(c.dates, Len(c.dates))
          /\ users = IF c.staffed THEN {user.id} ELSE {}
          /\ auditLogs = IF c.approved /\ c.staffed THEN <<AuditEntry(1, "approved")>> ELSE <<>>
          /\ videoClips = IF c.clips > 0 THEN <<VideoClip(1, <<"1">>)>> ELSE <<>>
          /\ disk = IF c.clips > 0 THEN {VideoPath(1)} ELSE {}
    /\ notes = <<>>
    /\ uploadedFileHashes = {}
    /\ FlagIdle
    /\ ParseIdle
    /\ AiIdle
    /\ queryIn \in [asked : {TRUE}, now : StatClocks]
    /\ queryOut = NotAsked

StatsNext == GetStatistics /\ UNCHANGED <<storeVars, flagVars, parseVars, aiVars>>

StatsSpec == StatsStart /\ [][StatsNext]_vars

FlaggedOnDay(day) ==
    {i \in DOMAIN transactions :
        transactions[i].isFlagged /\ DayPart(transactions[i].date) = day}

\* C23: the counts of GET /api/stats agree with the stored state: pending and
\* approved count the transactions of that status, flagged-today counts the
\* flagged transactions dated on the current day, video clips counts the
\* stored clips.
C23_StatsConsistent ==
    queryOut.asked =>
        /\ queryOut.body.pendingReview =
              Cardinality({i \in DOMAIN transactions : transactions[i].status = "pending"})
        /\ queryOut.body.approved =
              Cardinality({i \in DOMAIN transactions : transactions[i].status = "approved"})
        /\ queryOut.body.flaggedToday = Cardinality(FlaggedOnDay(DayPart(queryIn.now)))
        /\ queryOut.body.videoClips = Len(videoClips)

-----------------------------------------------------------------------------
(* The amount of the flagging comparisons (flagging harness).               *)

AmountKeys == {"Gross", "Net", "amount"}

\* the same row with the amount 0
ZeroAmountRow(row) == [k \in DOMAIN row |-> IF k \in AmountKeys THEN <<"0">> ELSE row[k]]

FlagCalled == flagOut # NotCalled

NoUsableAmount == flagCase.amount.kind \in {"missing", "garbage"}

\* C26 as stated: the amount compared is the text without "$" and ","
\* parsed as a number, and it is 0 when the parse fails or the amount is
\* missing; the decision is that of the same row with amount 0.
C26_FailedParseIsZero ==
    FlagCalled =>
        /\ flagCase.amount.kind = "number" => GrossAmount(flagIn) = Num(flagCase.amount.cents)
        /\ NoUsableAmount => /\ GrossAmount(flagIn) = Num(0)
                             /\ flagOut = flagTransaction(ZeroAmountRow(flagIn))

\* C26: the amount compared is the text without "$" and "," parsed as a
\* number; it is 0 when the amount is missing and NaN when the parse fails,
\* and in both cases the decision is that of the same row with amount 0.
C26_FailedParseFlagsAsZero ==
    FlagCalled =>
        /\ flagCase.amount.kind = "number" => GrossAmount(flagIn) = Num(flagCase.amount.cents)
        /\ flagCase.amount.kind = "missing" => GrossAmount(flagIn) = Num(0)
        /\ flagCase.amount.kind = "garbage" => GrossAmount(flagIn) = NaN
        /\ NoUsableAmount => flagOut = flagTransaction(ZeroAmountRow(flagIn))

C26_Witness ==
    /\ FlagCalled
    /\ flagCase.amount.kind = "garbage" /\ flagCase.word = Refund
    /\ flagOut = Flagged("Suspicious transaction type")

-----------------------------------------------------------------------------
(* Ingestion harness: upload requests only, over files that repeat a        *)
(* transaction id inside one file and across files, in an uploads           *)
(* directory from which a file can disappear while its handler waits.       *)

\* the uploaded file of a waiting handler is removed by something other
\* than the handler.  (No such step while delimited text is being read: the
\* read stream has no error listener and the process would end.)
LoseFile(s) ==
    /\ reqs[s].kind = "upload"
    /\ \/ reqs[s].pc = "rows"
       \/ reqs[s].pc = "parse" /\ IsSpreadsheet(Files[reqs[s].file])
    /\ UploadPath(s) \in disk
    /\ disk' = disk \ {UploadPath(s)}
    /\ UNCHANGED <<reqs, transactions, auditLogs, users, uploadedFileHashes,
                   flagVars, sideVars, parseVars, queryVars, aiVars>>

IngestNext ==
    \/ \E s \in Slots, f \in IngestFiles : UploadPOS(s, f)
    \/ \E s \in Slots : ParseFile(s)
    \/ \E s \in Slots : ProcessRow(s)
    \/ \E s \in Slots : LoseFile(s)

IngestStart == StoreInit /\ users = {} /\ FlagIdle /\ ParseIdle /\ QueryIdle /\ AiIdle

IngestSpec == IngestStart /\ [][IngestNext]_vars

\* the event loop runs every continuation that is ready, and the requests
\* that clients send are taken up: no step that can be taken is put off
\* for ever
IngestFairSpec == IngestSpec /\ WF_vars(IngestNext)

\* C24: no two persisted transactions share a transactionId, and a row whose
\* id is already stored does not stop the upload: every flagged row the
\* loop has gone through is stored under its id, by this upload or before.
C24_TransactionIdUnique ==
    /\ \A i, j \in DOMAIN transactions :
          i # j => transactions[i].transactionId # transactions[j].transactionId
    /\ \A s \in Slots :
          (reqs[s].kind = "upload" /\ reqs[s].parsed)
          => \A i \in HandledRows(reqs[s]) :
                \E j \in DOMAIN transactions : StoredAs(transactions[j], reqs[s], i)

\* the file that lists T3 twice stores T3 once and T1 after it; the later
\* file that carries T1 again stores nothing
C24_Witness ==
    /\ reqs[1].kind = "upload" /\ reqs[1].file = "twice.csv" /\ reqs[1].code = 200
    /\ reqs[1].totalProcessed = 3 /\ reqs[1].flaggedCount = 2
    /\ reqs[2].kind = "upload" /\ reqs[2].file = "canon.csv" /\ reqs[2].code = 200
    /\ reqs[2].flaggedCount = 0
    /\ Len(transactions) = 2
    /\ transactions[1].transactionId = T3 /\ transactions[2].transactionId = T1

BothPassed ==
    \E s, t \in Slots :
        /\ s # t
        /\ PassedGuard(reqs[s]) /\ PassedGuard(reqs[t])
        /\ SameContent(reqs[s].file, reqs[t].file)

C27_RetryRejected ==
    /\ \A s \in Slots :
          PassedGuard(reqs[s]) => FileHash[reqs[s].file] \in uploadedFileHashes
    /\ \A s1, s2 \in Slots :
          (/\ s1 < s2
           /\ PassedGuard(reqs[s1]) /\ reqs[s1].code \in {400, 500}
           /\ reqs[s2].kind = "upload"
           /\ SameContent(reqs[s1].file, reqs[s2].file))
          => reqs[s2].code = 409 /\ reqs[s2].createdTransactions = <<>>

C27_HashesOnlyGrow == uploadedFileHashes \subseteq uploadedFileHashes'

\* C27: the content hash is recorded before parsing and never removed: after
\* a first upload that failed with 400 or 500 a retry with the same bytes is
\* rejected as a duplicate, and the hash set only grows.
C27_FailedUploadStillGuards == []C27_RetryRejected /\ [][C27_HashesOnlyGrow]_vars

\* the spreadsheet's handling failed with 500 before any row was stored, and
\* the retry is rejected
C27_Witness ==
    /\ reqs[1].kind = "upload" /\ reqs[1].file = "modisoft.xls" /\ reqs[1].code = 500
    /\ reqs[2].kind = "upload" /\ reqs[2].file = "modisoft.xls" /\ reqs[2].code = 409
    /\ transactions = <<>>

C28_RemovedAtEnd ==
    \A s \in Slots :
        (reqs[s].kind = "upload" /\ Files[reqs[s].file].present /\ reqs[s].pc = "done")
        => /\ reqs[s].code \in {409, 400, 200, 500}
           /\ UploadPath(s) \notin disk

\* the handler removes its file in the step that ends the request, not
\* before; a request that has ended does nothing more
C28_RemovedOnce ==
    \A s \in Slots :
        /\ (reqs'[s] # reqs[s] /\ UploadPath(s) \in disk /\ UploadPath(s) \notin disk')
           => reqs[s].pc # "done" /\ reqs'[s].pc = "done"
        /\ reqs[s].pc = "done" => reqs'[s] = reqs[s]

\* C28: every upload request that carries a file ends, with 409, 400, 200 or
\* 500, with its file gone from the uploads directory; the handler removes
\* the file once, in the step that ends the request.
C28_FileRemoved == []C28_RemovedAtEnd /\ [][C28_RemovedOnce]_vars

C28_Witness ==
    /\ reqs[1].kind = "upload" /\ reqs[1].file = "twice.csv" /\ reqs[1].code = 200
    /\ reqs[2].kind = "upload" /\ reqs[2].file = "twice.csv" /\ reqs[2].code = 409
    /\ reqs[3].kind = "upload" /\ reqs[3].file = "broken.csv" /\ reqs[3].code = 400
    /\ \A s \in Slots : UploadPath(s) \notin disk

-----------------------------------------------------------------------------
(* AITransactionAnalyzer.analyzeBulkTransactions: the batches of a run, the *)
(* analyses in flight and the results collected.  An analysis is started    *)
(* when its batch is mapped and completes when analyzeTransaction returns;  *)
(* the analyses of a batch complete in any order.  Within a run the         *)
(* external service behaves the same way for every call.                    *)

MaxBulk == 12

batchSize == 10

HighRiskFrom == 80

Bob == <<"B","o","b">>

BulkTransaction(k) ==
    [transactionId |-> <<"T">> \o NatChars(k),
     transactionType |-> IF k % 2 = 0 THEN Sale ELSE Void,
     amount |-> <<"9",".","0","0">>,
     date |-> D1 \o Afternoon,
     employeeName |-> IF k % 3 = 0 THEN Bob ELSE Ann,
     registerId |-> DefaultRegister]

BulkInputs == {[k \in 1..n |-> BulkTransaction(k)] : n \in 0..MaxBulk}

BulkExternals ==
    {[kind |-> "nokey"],
     [kind |-> "error", error |-> [status |-> RateLimitStatus, message |-> Undefined]],
     [kind |-> "json",
      analysis |-> [isSuspicious |-> TRUE, suspiciousScore |-> 150,
                    flags |-> <<"after hours">>, explanation |-> "why",
                    recommendations |-> <<"review">>]]}

\* a slice that runs to the end of the array
SliceToEnd(n, from, to) == [k \in 1..(n - from) |-> from + k]

\* the positions of transactions.slice(from, to) in an array of n elements
Slice(n, from, to) == [k \in 1..(Smaller(to, n) - from) |-> from + k]

Range(seq) == {seq[k] : k \in DOMAIN seq}

NoSummary == [computed |-> FALSE]

\* Math.round(a / b) for a >= 0 and b > 0
RoundedQuotient(a, b) == (2 * a + b) \div (2 * b)

EmployeeKey(t) == <<t.employeeName, t.registerId>>

RECURSIVE SumScores(_)
SumScores(results) ==
    IF results = <<>> THEN 0 ELSE Head(results).suspiciousScore + SumScores(Tail(results))

\* the summary computed after the last batch.  No run here has more than 10
\* distinct flags or employees or more than 5 issues of an employee, so the
\* slices keep everything; the lists are given as sets, their order among
\* equal counts depends on the order in which the analyses completed.
Summary(input, results) ==
    LET of(key) == SelectSeq(results,
                             LAMBDA r : \E k \in DOMAIN input :
                                           /\ input[k].transactionId = r.transactionId
                                           /\ EmployeeKey(input[k]) = key)
        count(key) == Cardinality({k \in DOMAIN input :
                                      EmployeeKey(input[k]) = key})
    IN  [computed |-> TRUE,
         totalSuspicious |-> Cardinality({k \in DOMAIN results : results[k].isSuspicious}),
         highRiskCount |->
            Cardinality({k \in DOMAIN results : results[k].suspiciousScore >= HighRiskFrom}),
         commonFlags |-> UNION {Range(results[k].flags) : k \in DOMAIN results},
         employeeRisks |->
            {[employee |-> key,
              riskScore |-> RoundedQuotient(SumScores(of(key)), count(key)),
              issues |-> UNION {Range(of(key)[k].flags) : k \in DOMAIN of(key)}] :
                key \in {EmployeeKey(input[k]) : k \in DOMAIN input}}]

\* batch.map(...): every analysis of the batch is started
MapBatch(b, from) ==
    LET batch == Slice(Len(b.transactions), from, from + batchSize)
    IN  [b EXCEPT !.pc = "batch", !.i = from, !.batch = batch,
                  !.inflight = Range(batch), !.batchResults = <<>>,
                  !.started = b.started \cup Range(batch)]

\* the call: without transactions the loop is skipped and the summary made
StartBulk ==
    /\ bulk.pc = "start"
    /\ bulk' = IF Len(bulk.transactions) = 0
               THEN [bulk EXCEPT !.pc = "done",
                                 !.summary = Summary(bulk.transactions, bulk.results)]
               ELSE MapBatch(bulk, 0)

\* analyzeTransaction returns for transaction k of the batch in flight
CompleteAnalysis(k) ==
    /\ bulk.pc = "batch"
    /\ k \in bulk.inflight
    /\ LET analysis == analyzeTransaction(bulk.transactions[k], bulk.external)
           result == [transactionId |-> bulk.transactions[k].transactionId] @@ analysis
       IN  bulk' = [bulk EXCEPT !.inflight = bulk.inflight \ {k},
                                !.completed = bulk.completed \cup {k},
                                !.batchResults = (k :> result) @@ bulk.batchResults]

\* Promise.all(batchPromises) resolves: the results are pushed in the order
\* of the batch; after the last batch the summary is made
CollectBatch ==
    /\ bulk.pc = "batch"
    /\ bulk.inflight = {}
    /\ LET results == bulk.results \o
                        [k \in DOMAIN bulk.batch |-> bulk.batchResults[bulk.batch[k]]]
       IN  bulk' = IF bulk.i + batchSize < Len(bulk.transactions)
                   THEN [bulk EXCEPT !.pc = "delay", !.results = results]
                   ELSE [bulk EXCEPT !.pc = "done", !.results = results,
                                     !.summary = Summary(bulk.transactions, results)]

\* the delay is over: i += batchSize and the next batch is mapped
NextBatch ==
    /\ bulk.pc = "delay"
    /\ bulk' = MapBatch(bulk, bulk.i + batchSize)

BulkInit ==
    /\ aiIn = NoAnalysis
    /\ aiOut = NotAnalyzed
    /\ \E input \in BulkInputs, external \in BulkExternals :
          bulk = [pc |-> "start", transactions |-> input, external |-> external,
                  i |-> 0, batch |-> <<>>, inflight |-> {}, batchResults |-> <<>>,
                  started |-> {}, completed |-> {}, results |-> <<>>,
                  summary |-> NoSummary]

BulkNext ==
    /\ \/ StartBulk
       \/ \E k \in 1..MaxBulk : CompleteAnalysis(k)
       \/ CollectBatch
       \/ NextBatch
    /\ UNCHANGED <<aiIn, aiOut, storeVars, flagVars, parseVars, queryVars>>

BulkStart == StoreInit /\ users = {} /\ FlagIdle /\ ParseIdle /\ QueryIdle /\ BulkInit

BulkSpec == BulkStart /\ [][BulkNext]_vars

\* the batch a position belongs to, counted from 0
BatchOf(k) == (k - 1) \div 10

\* C29: analyzeBulkTransactions returns one result per input transaction, in
\* input order and under that transaction's id; the transactions are
\* analysed in consecutive batches of at most 10, and no analysis of a batch
\* starts before every analysis of the batches before it has completed.
C29_BatchesInOrder ==
    bulk.pc # "idle" =>
        /\ \A k \in DOMAIN bulk.results :
              /\ k \in DOMAIN bulk.transactions
              /\ bulk.results[k].transactionId = bulk.transactions[k].transactionId
        /\ bulk.pc = "done" => Len(bulk.results) = Len(bulk.transactions)
        /\ Cardinality(bulk.inflight) <= 10
        /\ \E m \in 0..Len(bulk.transactions) : bulk.started = 1..m
        /\ \A k \in bulk.inflight : \A l \in bulk.inflight : BatchOf(k) = BatchOf(l)
        /\ \A k \in bulk.started : \A l \in 1..MaxBulk :
              BatchOf(l) < BatchOf(k) => l \in bulk.completed

C29_Witness ==
    /\ bulk.pc = "done"
    /\ Len(bulk.transactions) = 12 /\ Len(bulk.results) = 12
    /\ bulk.results[11].transactionId = <<"T","1","1">>
    /\ bulk.completed = 1..12

====
